---- MODULE Spec2Model ----
(***************************************************************************)
(* Verification model of v3-templater: the LRU template cache, the         *)
(* Template engine (render / compile / addFilter / clearCache), the lexer, *)
(* the structural and expression parsers, the runtime evaluator and the    *)
(* compiler's render functions.                                            *)
(*                                                                         *)
(* JavaScript strings are sequences of one-character strings, so that      *)
(* concatenation, trimming, splitting and scanning are computed as the     *)
(* code computes them.  JavaScript values are tagged records [t, v].       *)
(***************************************************************************)
EXTENDS Integers, Sequences, FiniteSets, TLC

VARIABLES
  tcache,    \* TemplateCache under test: [cache, accessOrder, maxSize]
  clock,     \* history: number of cache operations performed so far
  lastUse,   \* history: key -> clock value of its latest set or hitting get
  lastOp,    \* history: the latest cache operation [op, key]
  pc,        \* pipeline: "idle", "start", "compiled", "rendered", "parsed",
             \*   "evaluated", "lexing" or "done"
  pShape,    \* pipeline: the description the template text was built from
  pSource,   \* pipeline: the template text
  pContext,  \* pipeline: the render context
  pOptions,  \* pipeline: the Compiler options
  pCompiled, \* pipeline: the result of parsing and compiling the template
  pOutput,   \* pipeline: the result of rendering the compiled template
  position,  \* lexer: this.position of the Lexer, 1-based
  tokens,    \* lexer: the tokens array of Lexer.tokenize
  engines,   \* engines: Template instance -> [autoEscape, strictMode, cacheOn,
             \*   filters (reference to a filter record), compiler, cache]
  heap,      \* engines: filter record reference -> the record (name -> function)
  solo,      \* history: each Template instance as it would be had the other
             \*   instance made no call (same calls, record not shared)
  soloHeap,  \* history: the filter record of each solo instance
  added,     \* history: instance -> the filters added through its addFilter
  calls,     \* history: number of calls made on the instances
  lastCall,  \* history: the latest call and what it returned
  loading    \* async engine: the loadTemplate calls made by preload so far,
             \*   each [filename, dirs, state] with state "pending", "loaded",
             \*   "failed" (file not found) or "rejected" (parse error)

cacheVars == <<tcache, clock, lastUse, lastOp>>

lexerVars == <<position, tokens>>

pipelineVars == <<pc, pShape, pSource, pContext, pOptions, pCompiled, pOutput,
                  position, tokens>>

engineVars == <<engines, heap, solo, soloHeap, added, calls, lastCall, loading>>

vars == <<tcache, clock, lastUse, lastOp, pc, pShape, pSource, pContext, pOptions,
          pCompiled, pOutput, position, tokens, engines, heap, solo, soloHeap,
          added, calls, lastCall, loading>>

(***************************************************************************)
(* Strings                                                                 *)
(***************************************************************************)
\* the characters of a string literal, as a sequence of one-character strings
Chars(s) == [i \in 1..Len(s) |-> SubSeq(s, i, i)]

EmptyStr == << >>

(***************************************************************************)
(* TemplateCache (cache.ts)                                                *)
(***************************************************************************)
\* capacity used by `new TemplateCache()` when no argument is given
DefaultMaxSize == 100

\* new TemplateCache(maxSize)
NewTemplateCache(maxSize) ==
  [cache |-> << >>, accessOrder |-> << >>, maxSize |-> maxSize]

\* Array.prototype.indexOf, 1-based; 0 when absent
IndexOf(seq, x) ==
  IF \E i \in 1..Len(seq) : seq[i] = x
  THEN CHOOSE i \in 1..Len(seq) : seq[i] = x /\ \A j \in 1..(i - 1) : seq[j] # x
  ELSE 0

\* Array.prototype.splice(index, 1)
RemoveAt(seq, i) == SubSeq(seq, 1, i - 1) \o SubSeq(seq, i + 1, Len(seq))

\* TemplateCache.updateAccessOrder
updateAccessOrder(order, key) ==
  LET index == IndexOf(order, key)
  IN  (IF index > 0 THEN RemoveAt(order, index) ELSE order) \o <<key>>

\* TemplateCache.has
CacheHas(c, key) == key \in DOMAIN c.cache

\* TemplateCache.size
CacheSize(c) == Cardinality(DOMAIN c.cache)

\* Map.prototype.set on the function that models the Map
MapSet(m, key, val) ==
  [k \in (DOMAIN m) \cup {key} |-> IF k = key THEN val ELSE m[k]]

\* Map.prototype.delete
MapDelete(m, key) == [k \in (DOMAIN m) \ {key} |-> m[k]]

\* JavaScript truthiness of the result of accessOrder.shift(): undefined
\* (empty array) and the empty string are falsy
ShiftedKeyTruthy(order) == Len(order) > 0 /\ Head(order) # EmptyStr

\* TemplateCache.get that moves the key to the end of the recency list whether
\* or not it is stored
CacheGetAlwaysPromotes(c, key) ==
  [c EXCEPT !.accessOrder = updateAccessOrder(c.accessOrder, key)]

\* TemplateCache.get: the state after the call (a hit promotes the key).
\* Every stored template is an object, hence truthy.
CacheGetState(c, key) ==
  IF key \in DOMAIN c.cache
  THEN [c EXCEPT !.accessOrder = updateAccessOrder(c.accessOrder, key)]
  ELSE c

\* TemplateCache.get that returns the most recently used template whatever
\* key is asked for
CacheGetNewest(c, key) ==
  IF key \in DOMAIN c.cache
  THEN [found |-> TRUE, template |-> c.cache[c.accessOrder[Len(c.accessOrder)]]]
  ELSE [found |-> FALSE]

\* TemplateCache.get: the returned template ([found |-> FALSE] is undefined)
CacheGetResult(c, key) ==
  IF key \in DOMAIN c.cache
  THEN [found |-> TRUE, template |-> c.cache[key]]
  ELSE [found |-> FALSE]

\* TemplateCache.set
CacheSet(c, key, template) ==
  LET full    == CacheSize(c) >= c.maxSize /\ ~CacheHas(c, key)
      shifted == IF full /\ Len(c.accessOrder) > 0
                 THEN Tail(c.accessOrder) ELSE c.accessOrder
      evicted == IF full /\ ShiftedKeyTruthy(c.accessOrder)
                 THEN MapDelete(c.cache, Head(c.accessOrder))
                 ELSE c.cache
  IN  [c EXCEPT !.cache = MapSet(evicted, key, template),
                !.accessOrder = updateAccessOrder(shifted, key)]

\* TemplateCache.clear
CacheClear(c) == [c EXCEPT !.cache = << >>, !.accessOrder = << >>]

(***************************************************************************)
(* String helpers (JavaScript String methods used by the lexer and parser) *)
(***************************************************************************)
Min(a, b) == IF a < b THEN a ELSE b
Max(a, b) == IF a > b THEN a ELSE b

\* characters matched by the regular expression class \s
WS == {" ", "\t", "\n", "\r"}

Digits == {"0", "1", "2", "3", "4", "5", "6", "7", "8", "9"}

LowerLetters == {"a", "b", "c", "d", "e", "f", "g", "h", "i", "j", "k", "l", "m",
                 "n", "o", "p", "q", "r", "s", "t", "u", "v", "w", "x", "y", "z"}

UpperLetters == {"A", "B", "C", "D", "E", "F", "G", "H", "I", "J", "K", "L", "M",
                 "N", "O", "P", "Q", "R", "S", "T", "U", "V", "W", "X", "Y", "Z"}

\* characters matched by the regular expression class \w
WordChars == LowerLetters \cup UpperLetters \cup Digits \cup {"_"}

\* s.substring(from - 1): the suffix that starts at 1-based index from
DropTo(s, from) == SubSeq(s, from, Len(s))

\* the smallest p >= pos at which Stop holds, or Len(s) + 1 when there is none:
\* the position a `while (position < length && !stop) position++` loop ends at
ScanTo(s, pos, Stop(_)) ==
  IF pos > Len(s) THEN pos
  ELSE CHOOSE p \in pos..(Len(s) + 1) :
         /\ (p = Len(s) + 1 \/ Stop(p))
         /\ \A q \in pos..(p - 1) : ~Stop(q)

\* String.prototype.trim
Trim(s) ==
  IF \A i \in 1..Len(s) : s[i] \in WS THEN << >>
  ELSE LET a == CHOOSE i \in 1..Len(s) : s[i] \notin WS /\ \A j \in 1..(i - 1) : s[j] \in WS
           b == CHOOSE i \in 1..Len(s) : s[i] \notin WS /\ \A j \in (i + 1)..Len(s) : s[j] \in WS
       IN  SubSeq(s, a, b)

\* String.prototype.startsWith
StartsWith(s, prefix) ==
  Len(s) >= Len(prefix) /\ SubSeq(s, 1, Len(prefix)) = prefix

\* s.split(sep) for a one-character separator: the pieces between separators
RECURSIVE SplitOn(_, _)
SplitOn(s, sep) ==
  LET p == ScanTo(s, 1, LAMBDA i : s[i] = sep)
  IN  IF p > Len(s) THEN <<s>>
      ELSE <<SubSeq(s, 1, p - 1)>> \o SplitOn(DropTo(s, p + 1), sep)

\* the length of the longest prefix of s starting at pos made of chars of set
RunEnd(s, pos, set) == ScanTo(s, pos, LAMBDA i : s[i] \notin set)

(***************************************************************************)
(* Lexer (lexer.ts): template text -> TEXT / TAG_START / VARIABLE_START    *)
(* tokens.  Positions are 1-based (JavaScript position + 1).  The line and *)
(* column fields of a token are never read by the parser and are omitted.  *)
(***************************************************************************)
DefaultDelimiters == [start |-> Chars("{{"), end |-> Chars("}}")]

TagOpen == Chars("{%")
TagClose == Chars("%}")

Token(type, value) == [type |-> type, value |-> value]

\* Lexer.peek
peek(input, pos, str) ==
  SubSeq(input, pos, Min(pos + Len(str) - 1, Len(input))) = str

\* Lexer.skipWhitespace: the position after the whitespace run
skipWhitespace(input, pos) == RunEnd(input, pos, WS)

\* Lexer.readUntil: the position at which str is found (or the end of input)
readUntil(input, pos, str) == ScanTo(input, pos, LAMBDA p : peek(input, p, str))

\* Lexer.readTag: the token and the position after `advance(2)`
readTag(input, pos) ==
  LET p1 == skipWhitespace(input, pos + 2)
      p2 == readUntil(input, p1, TagClose)
  IN  [token |-> Token("TAG_START", Trim(SubSeq(input, p1, p2 - 1))),
       pos |-> p2 + 2]

\* Lexer.readVariable
readVariable(input, pos, delimiters) ==
  LET p1 == skipWhitespace(input, pos + Len(delimiters.start))
      p2 == readUntil(input, p1, delimiters.end)
  IN  [token |-> Token("VARIABLE_START", Trim(SubSeq(input, p1, p2 - 1))),
       pos |-> p2 + Len(delimiters.end)]

\* Lexer.readText
readText(input, pos, delimiters) ==
  LET p == ScanTo(input, pos,
                  LAMBDA q : peek(input, q, TagOpen) \/ peek(input, q, delimiters.start))
  IN  [token |-> Token("TEXT", SubSeq(input, pos, p - 1)), pos |-> p]

\* Lexer.nextToken
nextToken(input, pos, delimiters) ==
  IF pos > Len(input) THEN [token |-> Token("EOF", << >>), pos |-> pos]
  ELSE IF peek(input, pos, TagOpen) THEN readTag(input, pos)
  ELSE IF peek(input, pos, delimiters.start) THEN readVariable(input, pos, delimiters)
  ELSE readText(input, pos, delimiters)

\* Lexer.tokenize, cut off after `fuel` tokens (a lexer that makes no progress
\* would otherwise never return)
RECURSIVE tokenizeFrom(_, _, _, _)
tokenizeFrom(input, pos, delimiters, fuel) ==
  LET r == nextToken(input, pos, delimiters)
  IN  IF r.token.type = "EOF" \/ fuel = 0 THEN <<r.token>>
      ELSE <<r.token>> \o tokenizeFrom(input, r.pos, delimiters, fuel - 1)

tokenize(input, delimiters) == tokenizeFrom(input, 1, delimiters, Len(input) + 1)

(***************************************************************************)
(* ExpressionLexer (lexer.ts): tag / variable content -> expression tokens *)
(***************************************************************************)
Keywords == {Chars("if"), Chars("else"), Chars("elif"), Chars("endif"),
             Chars("for"), Chars("endfor"), Chars("in"), Chars("block"),
             Chars("endblock"), Chars("extends"), Chars("include"),
             Chars("true"), Chars("false"), Chars("null"), Chars("and"),
             Chars("or"), Chars("not")}

EofToken == Token("EOF", << >>)

\* the token `null` returned by ExpressionLexer.nextToken for a skipped character
NoToken == Token("NONE", << >>)

\* ExpressionLexer.readOperator
readOperator(input, pos) ==
  IF pos + 1 <= Len(input) /\ input[pos + 1] = "="
  THEN [token |-> Token("OPERATOR", <<input[pos], "=">>), pos |-> pos + 2]
  ELSE [token |-> Token("OPERATOR", <<input[pos]>>), pos |-> pos + 1]

\* ExpressionLexer.readNumber
readNumber(input, pos) ==
  LET p == RunEnd(input, pos, Digits \cup {"."})
  IN  [token |-> Token("NUMBER", SubSeq(input, pos, p - 1)), pos |-> p]

\* the loop of ExpressionLexer.readString: [str, pos] when it leaves the loop
RECURSIVE readStringLoop(_, _, _, _)
readStringLoop(input, pos, quote, str) ==
  IF pos > Len(input) \/ input[pos] = quote THEN [str |-> str, pos |-> pos]
  ELSE IF input[pos] = "\\"
       THEN IF pos + 1 <= Len(input)
            THEN readStringLoop(input, pos + 2, quote, str \o <<input[pos + 1]>>)
            ELSE readStringLoop(input, pos + 1, quote, str)
       ELSE readStringLoop(input, pos + 1, quote, str \o <<input[pos]>>)

\* ExpressionLexer.readString
readString(input, pos) ==
  LET r == readStringLoop(input, pos + 1, input[pos], << >>)
  IN  [token |-> Token("STRING", r.str), pos |-> r.pos + 1]

\* ExpressionLexer.readIdentifier
readIdentifier(input, pos) ==
  LET p     == RunEnd(input, pos, WordChars)
      ident == SubSeq(input, pos, p - 1)
  IN  [token |-> Token(IF ident \in Keywords THEN "KEYWORD" ELSE "IDENTIFIER", ident),
       pos |-> p]

\* the token type of a special character
SpecialType(char) ==
  CASE char = "." -> "DOT"
    [] char = "," -> "COMMA"
    [] char = "|" -> "PIPE"
    [] char = "(" -> "LPAREN"
    [] char = ")" -> "RPAREN"
    [] char = "[" -> "LBRACKET"
    [] char = "]" -> "RBRACKET"
    [] OTHER -> "OPERATOR"

\* ExpressionLexer.nextToken
exprNextToken(input, pos) ==
  LET char == input[pos]
  IN  IF char \in {"=", "!", "<", ">"} THEN readOperator(input, pos)
      ELSE IF char \in Digits THEN readNumber(input, pos)
      ELSE IF char \in {"\"", "'"} THEN readString(input, pos)
      ELSE IF char \in LowerLetters \cup UpperLetters \cup {"_"}
           THEN readIdentifier(input, pos)
      ELSE IF char \in {".", ",", "|", "(", ")", "[", "]", "+", "-", "*", "/", "%"}
           THEN [token |-> Token(SpecialType(char), <<char>>), pos |-> pos + 1]
      ELSE [token |-> NoToken, pos |-> pos + 1]

\* the loop of ExpressionLexer.tokenize
RECURSIVE exprTokenizeFrom(_, _)
exprTokenizeFrom(input, pos) ==
  LET p == RunEnd(input, pos, WS)
  IN  IF p > Len(input) THEN <<EofToken>>
      ELSE LET r == exprNextToken(input, p)
           IN  (IF r.token = NoToken THEN << >> ELSE <<r.token>>)
                 \o exprTokenizeFrom(input, r.pos)

\* new ExpressionLexer(input).tokenize()
exprTokenize(input) == exprTokenizeFrom(Trim(input), 1)

(***************************************************************************)
(* JavaScript values: tagged records                                       *)
(***************************************************************************)
Undefined == [t |-> "undefined"]
Null == [t |-> "null"]
Bool(b) == [t |-> "boolean", v |-> b]
Num(n) == [t |-> "number", v |-> n]
NaN == [t |-> "nan"]
\* a number literal that is not a whole number, kept as its text
Decimal(text) == [t |-> "decimal", v |-> text]
Str(s) == [t |-> "string", v |-> s]
Arr(items) == [t |-> "array", v |-> items]
\* a plain object: its own properties as <<key, value>> pairs in insertion order
Obj(props) == [t |-> "object", v |-> props]
\* a function value, identified by name
Fn(name) == [t |-> "function", v |-> name]
\* new SafeString(value)
SafeString(s) == [t |-> "safe", v |-> s]

DigitVal(c) ==
  CASE c = "0" -> 0 [] c = "1" -> 1 [] c = "2" -> 2 [] c = "3" -> 3 [] c = "4" -> 4
    [] c = "5" -> 5 [] c = "6" -> 6 [] c = "7" -> 7 [] c = "8" -> 8 [] c = "9" -> 9

RECURSIVE DigitsToNat(_)
DigitsToNat(s) ==
  IF Len(s) = 0 THEN 0
  ELSE 10 * DigitsToNat(SubSeq(s, 1, Len(s) - 1)) + DigitVal(s[Len(s)])

\* parseFloat of a NUMBER token (digits and dots, starting with a digit): the
\* whole number when the fraction is absent or zero, else the decimal's text
ParseFloat(s) ==
  LET p == RunEnd(s, 1, Digits)
      q == RunEnd(s, p + 1, Digits)
  IN  IF \A i \in (p + 1)..(q - 1) : s[i] = "0"
      THEN Num(DigitsToNat(SubSeq(s, 1, p - 1)))
      ELSE Decimal(SubSeq(s, 1, q - 1))

(***************************************************************************)
(* ExpressionParser (parser.ts): precedence climbing over expression       *)
(* tokens.  A parse function returns [ok, e, p]: the expression and the    *)
(* position after it, or ok = FALSE when the code throws.                  *)
(***************************************************************************)
Literal(value) == [type |-> "literal", value |-> value]
Variable(name) == [type |-> "variable", name |-> name]
Binary(operator, left, right) ==
  [type |-> "binary", operator |-> operator, left |-> left, right |-> right]
Unary(operator, argument) ==
  [type |-> "unary", operator |-> operator, argument |-> argument]
Member(object, property) ==
  [type |-> "member", object |-> object, property |-> property]
Call(callee, arguments) ==
  [type |-> "call", callee |-> callee, arguments |-> arguments]

Parsed(e, p) == [ok |-> TRUE, e |-> e, p |-> p]
ParseError == [ok |-> FALSE]

\* ExpressionParser.check
exprCheck(toks, p, type) == toks[p].type # "EOF" /\ toks[p].type = type

\* ExpressionParser.match(type, value)
exprMatch(toks, p, type, value) == exprCheck(toks, p, type) /\ toks[p].value = value

\* ExpressionParser.matchOperator
matchOperator(toks, p, operators) ==
  exprCheck(toks, p, "OPERATOR") /\ toks[p].value \in operators

RECURSIVE parseBinary(_, _, _), parseBinaryLoop(_, _, _),
          parseUnary(_, _), parsePostfix(_, _), parsePostfixLoop(_, _),
          parseArgs(_, _, _), parseArgsLoop(_, _, _), parsePrimary(_, _)

\* the levels with `and` looked for by parseOr and `or` by parseAnd
BinaryOperatorsAndFirst ==
  << {Chars("and")}, {Chars("or")}, {Chars("=="), Chars("!=")},
     {Chars("<"), Chars("<="), Chars(">"), Chars(">=")},
     {Chars("+"), Chars("-")}, {Chars("*"), Chars("/"), Chars("%")} >>

\* the operators of parseOr, parseAnd, parseEquality, parseComparison,
\* parseTerm and parseFactor, in the order in which each calls the next
BinaryOperators ==
  << {Chars("or")}, {Chars("and")}, {Chars("=="), Chars("!=")},
     {Chars("<"), Chars("<="), Chars(">"), Chars(">=")},
     {Chars("+"), Chars("-")}, {Chars("*"), Chars("/"), Chars("%")} >>

\* the loop condition of the level: match(KEYWORD, 'or' / 'and') for the
\* first two, matchOperator(...) for the others
matchBinary(toks, p, level) ==
  IF level <= 2
  THEN \E keyword \in BinaryOperators[level] : exprMatch(toks, p, "KEYWORD", keyword)
  ELSE matchOperator(toks, p, BinaryOperators[level])

\* left = { type: 'binary', operator, left, right }, right being a parse result
binaryOf(operator, left, right) ==
  IF right.ok THEN Parsed(Binary(operator, left.e, right.e), right.p) ELSE right

\* parseOr (level 1) ... parseFactor (level 6): all six have the same body,
\* `left = next(); while (match) { right = next(); left = binary }`, the
\* next of parseFactor being parseUnary
parseBinary(toks, p, level) ==
  IF level > Len(BinaryOperators) THEN parseUnary(toks, p)
  ELSE parseBinaryLoop(toks, parseBinary(toks, p, level + 1), level)

\* the while loop of a level; a failed operand ends the parse
parseBinaryLoop(toks, left, level) ==
  IF ~left.ok THEN left
  ELSE IF matchBinary(toks, left.p, level)
       THEN parseBinaryLoop(toks,
                            binaryOf(toks[left.p].value, left,
                                     parseBinary(toks, left.p + 1, level + 1)),
                            level)
  ELSE left

\* ExpressionParser.parseOr
parseOr(toks, p) == parseBinary(toks, p, 1)

\* ExpressionParser.parseExpression
parseExpression(toks, p) == parseOr(toks, p)

\* { type: 'unary', operator, argument }, argument being a parse result
unaryOf(operator, argument) ==
  IF argument.ok THEN Parsed(Unary(operator, argument.e), argument.p) ELSE argument

parseUnary(toks, p) ==
  IF exprMatch(toks, p, "KEYWORD", Chars("not"))
       \/ matchOperator(toks, p, {Chars("-"), Chars("!")})
  THEN unaryOf(toks[p].value, parseUnary(toks, p + 1))
  ELSE parsePostfix(toks, p)

parsePostfix(toks, p) == parsePostfixLoop(toks, parsePrimary(toks, p))

\* the do / while loop that collects call arguments: [ok, args, p]
parseArgs(toks, p, args) == parseArgsLoop(toks, args, parseExpression(toks, p))

\* one round of that loop, a being the argument just parsed
parseArgsLoop(toks, args, a) ==
  IF ~a.ok THEN [ok |-> FALSE]
  ELSE IF exprCheck(toks, a.p, "COMMA")
       THEN parseArgs(toks, a.p + 1, Append(args, a.e))
       ELSE [ok |-> TRUE, args |-> Append(args, a.e), p |-> a.p]

\* { type: 'call', callee, arguments } once the closing parenthesis is consumed
callOf(toks, callee, a) ==
  IF a.ok /\ exprCheck(toks, a.p, "RPAREN")
  THEN Parsed(Call(callee.e, a.args), a.p + 1)
  ELSE ParseError

\* the while loop of parsePostfix; a failed operand ends the parse
parsePostfixLoop(toks, expr) ==
  IF ~expr.ok THEN expr
  ELSE IF exprCheck(toks, expr.p, "DOT")
  THEN IF exprCheck(toks, expr.p + 1, "IDENTIFIER")
       THEN parsePostfixLoop(toks, Parsed(Member(expr.e, toks[expr.p + 1].value),
                                          expr.p + 2))
       ELSE ParseError
  ELSE IF exprCheck(toks, expr.p, "LBRACKET")
  THEN IF exprCheck(toks, expr.p + 1, "IDENTIFIER")
          /\ exprCheck(toks, expr.p + 2, "RBRACKET")
       THEN parsePostfixLoop(toks, Parsed(Member(expr.e, toks[expr.p + 1].value),
                                          expr.p + 3))
       ELSE ParseError
  ELSE IF exprCheck(toks, expr.p, "LPAREN")
  THEN parsePostfixLoop(toks,
         callOf(toks, expr,
                IF exprCheck(toks, expr.p + 1, "RPAREN")
                THEN [ok |-> TRUE, args |-> << >>, p |-> expr.p + 1]
                ELSE parseArgs(toks, expr.p + 1, << >>)))
  ELSE expr

\* the parenthesised expression once the closing parenthesis is consumed
groupOf(toks, e) ==
  IF e.ok /\ exprCheck(toks, e.p, "RPAREN") THEN Parsed(e.e, e.p + 1) ELSE ParseError

parsePrimary(toks, p) ==
  IF exprCheck(toks, p, "NUMBER") THEN Parsed(Literal(ParseFloat(toks[p].value)), p + 1)
  ELSE IF exprCheck(toks, p, "STRING") THEN Parsed(Literal(Str(toks[p].value)), p + 1)
  ELSE IF exprMatch(toks, p, "KEYWORD", Chars("true")) THEN Parsed(Literal(Bool(TRUE)), p + 1)
  ELSE IF exprMatch(toks, p, "KEYWORD", Chars("false")) THEN Parsed(Literal(Bool(FALSE)), p + 1)
  ELSE IF exprMatch(toks, p, "KEYWORD", Chars("null")) THEN Parsed(Literal(Null), p + 1)
  ELSE IF exprCheck(toks, p, "IDENTIFIER") THEN Parsed(Variable(toks[p].value), p + 1)
  ELSE IF exprCheck(toks, p, "LPAREN") THEN groupOf(toks, parseExpression(toks, p + 1))
  ELSE ParseError

(***************************************************************************)
(* Regular expressions of the structural parser, matched as the JavaScript *)
(* engine matches them (leftmost start, greedy quantifiers)                *)
(***************************************************************************)
LineTerminators == {"\n", "\r"}

\* the 1-based start indices at which literal word occurs in s
Occurrences(s, word) == {i \in 1..Len(s) : peek(s, i, word) /\ i + Len(word) - 1 <= Len(s)}

\* f.match(/^(\w+)(?:\((.*)\))?$/): the filter name and the text between the
\* parentheses ([ok |-> FALSE] when there is no match)
FilterMatch(f) ==
  LET n    == RunEnd(f, 1, WordChars)
      rest == DropTo(f, n)
  IN  IF n = 1 THEN [ok |-> FALSE]
      ELSE IF Len(rest) = 0 THEN [ok |-> TRUE, name |-> SubSeq(f, 1, n - 1), args |-> << >>]
      ELSE IF /\ Len(rest) >= 2 /\ rest[1] = "(" /\ rest[Len(rest)] = ")"
              /\ \A i \in 2..(Len(rest) - 1) : rest[i] \notin LineTerminators
           THEN [ok |-> TRUE, name |-> SubSeq(f, 1, n - 1),
                 args |-> SubSeq(rest, 2, Len(rest) - 1)]
           ELSE [ok |-> FALSE]

\* the part \s+in\s+(.+) of the for pattern, tried at position x
ForTail(content, x) ==
  LET g == RunEnd(content, x, WS)
      h == g + 2
      k == RunEnd(content, h, WS)
      e == ScanTo(content, k, LAMBDA i : content[i] \in LineTerminators)
  IN  IF g > x /\ peek(content, g, Chars("in")) /\ h <= Len(content) + 1
         /\ k > h /\ k <= Len(content) /\ content[k] \notin LineTerminators
      THEN [ok |-> TRUE, iterable |-> SubSeq(content, k, e - 1)]
      ELSE [ok |-> FALSE]

\* /for\s+(\w+)(?:\s*,\s*(\w+))?\s+in\s+(.+)/ tried with `for` at index i
ForMatchAt(content, i) ==
  LET b == RunEnd(content, i + 3, WS)
      c == RunEnd(content, b, WordChars)
      d == RunEnd(content, c, WS)
      e == RunEnd(content, d + 1, WS)
      f == RunEnd(content, e, WordChars)
      withIndex == d <= Len(content) /\ content[d] = "," /\ f > e
      t == ForTail(content, IF withIndex THEN f ELSE c)
  IN  IF b > i + 3 /\ c > b /\ t.ok
      THEN [ok |-> TRUE, variable |-> SubSeq(content, b, c - 1),
            hasIndexVar |-> withIndex,
            indexVar |-> IF withIndex THEN SubSeq(content, e, f - 1) ELSE << >>,
            iterable |-> t.iterable]
      ELSE [ok |-> FALSE]

\* content.match(/for\s+(\w+)(?:\s*,\s*(\w+))?\s+in\s+(.+)/)
ForMatch(content) ==
  LET starts == {i \in Occurrences(content, Chars("for")) : ForMatchAt(content, i).ok}
  IN  IF starts = {} THEN [ok |-> FALSE]
      ELSE ForMatchAt(content, CHOOSE i \in starts : \A j \in starts : i <= j)

\* content.match(/block\s+(\w+)/): the block name
BlockMatch(content) ==
  LET good(i) == LET b == RunEnd(content, i + 5, WS)
                 IN  b > i + 5 /\ b <= Len(content) /\ content[b] \in WordChars
      starts  == {i \in Occurrences(content, Chars("block")) : good(i)}
  IN  IF starts = {} THEN [ok |-> FALSE]
      ELSE LET i == CHOOSE i \in starts : \A j \in starts : i <= j
               b == RunEnd(content, i + 5, WS)
           IN  [ok |-> TRUE,
                name |-> SubSeq(content, b, RunEnd(content, b, WordChars) - 1)]

\* content.match(/keyword\s+['"](.+)['"]/): the text between the quotes
QuotedArgMatch(content, keyword) ==
  LET quotes == {"\"", "'"}
      open(i) == RunEnd(content, i + Len(keyword), WS)
      closes(i) == LET q == open(i)
                       e == ScanTo(content, q + 1, LAMBDA j : content[j] \in LineTerminators)
                   IN  {j \in (q + 2)..(e - 1) : content[j] \in quotes}
      good(i) == /\ open(i) > i + Len(keyword) /\ open(i) <= Len(content)
                 /\ content[open(i)] \in quotes /\ closes(i) # {}
      starts  == {i \in Occurrences(content, keyword) : good(i)}
  IN  IF starts = {} THEN [ok |-> FALSE]
      ELSE LET i == CHOOSE i \in starts : \A j \in starts : i <= j
               j == CHOOSE j \in closes(i) : \A k \in closes(i) : k <= j
           IN  [ok |-> TRUE, name |-> SubSeq(content, open(i) + 1, j - 1)]

(***************************************************************************)
(* Parser (parser.ts): tokens -> AST.  A parse function returns            *)
(* [ok, node, p] or [ok, nodes, p]; ok = FALSE when the code throws.       *)
(***************************************************************************)
TextNode(value) == [type |-> "text", value |-> value]
VariableNode(name, filters) == [type |-> "variable", name |-> name, filters |-> filters]
\* elseIfs = << >> stands for undefined; hasAlternate tells whether alternate is defined
IfNode(condition, consequent, elseIfs, hasAlternate, alternate) ==
  [type |-> "if", condition |-> condition, consequent |-> consequent,
   elseIfs |-> elseIfs, hasAlternate |-> hasAlternate, alternate |-> alternate]
ForNode(variable, hasIndexVar, indexVar, iterable, body) ==
  [type |-> "for", variable |-> variable, hasIndexVar |-> hasIndexVar,
   indexVar |-> indexVar, iterable |-> iterable, body |-> body]
IncludeNode(template) == [type |-> "include", template |-> template]
BlockNode(name, body) == [type |-> "block", name |-> name, body |-> body]
ExtendsNode(parent) == [type |-> "extends", parent |-> parent]
\* the `null` that parseNode / parseTag return for a token that yields no node
NullNode == [type |-> "null"]

NodeResult(node, p) == [ok |-> TRUE, node |-> node, p |-> p]
NodesResult(nodes, p) == [ok |-> TRUE, nodes |-> nodes, p |-> p]

\* Parser.isAtEnd
isAtEnd(toks, p) == p > Len(toks) \/ toks[p].type = "EOF"

\* the filter list built by Parser.parseVariable from the pipe-separated parts
RECURSIVE TrimAll(_)
TrimAll(parts) ==
  IF Len(parts) = 0 THEN << >> ELSE <<Trim(Head(parts))>> \o TrimAll(Tail(parts))

parseFilter(f) ==
  LET m == FilterMatch(f)
  IN  IF m.ok
      THEN [name |-> m.name,
            args |-> IF Len(m.args) > 0 THEN TrimAll(SplitOn(m.args, ",")) ELSE << >>]
      ELSE [name |-> f, args |-> << >>]

RECURSIVE parseFilters(_)
parseFilters(parts) ==
  IF Len(parts) = 0 THEN << >>
  ELSE <<parseFilter(Head(parts))>> \o parseFilters(Tail(parts))

\* Parser.parseVariable (the ExpressionParser it constructs is never run)
parseVariable(value) ==
  LET parts == TrimAll(SplitOn(value, "|"))
  IN  VariableNode(Head(parts), parseFilters(Tail(parts)))

\* parts[0] of token.value.split(/\s+/)
TagName(value) == SubSeq(value, 1, ScanTo(value, 1, LAMBDA i : value[i] \in WS) - 1)

\* new ExpressionParser(new ExpressionLexer(text).tokenize()).parseExpression()
parseExpressionText(text) == parseExpression(exprTokenize(text), 1)

\* an else body that also ends at an elif tag
StopsBodyElseAtElif(kind, token) ==
  /\ token.type = "TAG_START"
  /\ CASE kind = "elif" -> \/ token.value = Chars("endif")
                           \/ token.value = Chars("else")
                           \/ StartsWith(token.value, Chars("elif"))
       [] kind = "else" -> \/ token.value = Chars("endif")
                           \/ StartsWith(token.value, Chars("elif"))
       [] kind = "for" -> token.value = Chars("endfor")
       [] kind = "block" -> token.value = Chars("endblock")
       [] OTHER -> FALSE

\* the condition that ends a body loop without consuming the token
StopsBody(kind, token) ==
  /\ token.type = "TAG_START"
  /\ CASE kind = "elif" -> \/ token.value = Chars("endif")
                           \/ token.value = Chars("else")
                           \/ StartsWith(token.value, Chars("elif"))
       [] kind = "else" -> token.value = Chars("endif")
       [] kind = "for" -> token.value = Chars("endfor")
       [] kind = "block" -> token.value = Chars("endblock")
       [] OTHER -> FALSE

RECURSIVE parseNode(_, _), parseTag(_, _), parseIf(_, _, _), parseIfLoop(_, _, _),
          parseFor(_, _, _), parseBlock(_, _, _), parseBody(_, _, _, _),
          parseBodyPush(_, _, _, _), parseIfElif(_, _, _, _), parseIfElse(_, _, _),
          parseIfPush(_, _, _), parseForBody(_, _, _), parseBlockBody(_, _, _)

\* the loops `while (!isAtEnd()) { if (terminator) break; push(parseNode()) }`
parseBody(toks, p, kind, nodes) ==
  IF isAtEnd(toks, p) \/ StopsBody(kind, toks[p]) THEN NodesResult(nodes, p)
  ELSE parseBodyPush(toks, kind, nodes, parseNode(toks, p))

\* one round of such a loop, r being the result of parseNode
parseBodyPush(toks, kind, nodes, r) ==
  IF ~r.ok THEN ParseError
  ELSE parseBody(toks, r.p, kind,
                 IF r.node = NullNode THEN nodes ELSE Append(nodes, r.node))

\* Parser.parseNode
parseNode(toks, p) ==
  IF toks[p].type = "TEXT" THEN NodeResult(TextNode(toks[p].value), p + 1)
  ELSE IF toks[p].type = "VARIABLE_START"
       THEN NodeResult(parseVariable(toks[p].value), p + 1)
  ELSE IF toks[p].type = "TAG_START" THEN parseTag(toks, p)
  ELSE NodeResult(NullNode, p + 1)

\* the node built from the match of the include / extends pattern
quotedNodeOf(m, type, p) ==
  IF ~m.ok THEN ParseError
  ELSE IF type = "include" THEN NodeResult(IncludeNode(m.name), p)
  ELSE NodeResult(ExtendsNode(m.name), p)

\* Parser.parseInclude
parseInclude(content, p) ==
  quotedNodeOf(QuotedArgMatch(content, Chars("include")), "include", p)

\* Parser.parseExtends
parseExtends(content, p) ==
  quotedNodeOf(QuotedArgMatch(content, Chars("extends")), "extends", p)

\* the switch of Parser.parseTag
parseTagNamed(toks, p, tagName) ==
  IF tagName = Chars("if") THEN parseIf(toks, p + 1, toks[p].value)
  ELSE IF tagName = Chars("for") THEN parseFor(toks, p + 1, toks[p].value)
  ELSE IF tagName = Chars("include") THEN parseInclude(toks[p].value, p + 1)
  ELSE IF tagName = Chars("block") THEN parseBlock(toks, p + 1, toks[p].value)
  ELSE IF tagName = Chars("extends") THEN parseExtends(toks[p].value, p + 1)
  ELSE NodeResult(NullNode, p + 1)

\* Parser.parseTag
parseTag(toks, p) == parseTagNamed(toks, p, TagName(toks[p].value))

\* the IfNode built from the parsed condition c and the result r of the loop
ifNodeOf(c, r) ==
  IF ~c.ok \/ ~r.ok THEN ParseError
  ELSE NodeResult(IfNode(c.e, r.st.consequent, r.st.elseIfs,
                         r.st.hasAlternate, r.st.alternate), r.p)

\* Parser.parseIf: the condition, then the loop over the branches
parseIf(toks, p, content) ==
  ifNodeOf(parseExpressionText(Trim(DropTo(content, 3))),
           parseIfLoop(toks, p, [consequent |-> << >>, elseIfs |-> << >>,
                                 hasAlternate |-> FALSE, alternate |-> << >>]))

\* the elif branch of the loop: body and c are the parsed body and condition
parseIfElif(toks, st, body, c) ==
  IF ~body.ok \/ ~c.ok THEN ParseError
  ELSE parseIfLoop(toks, body.p,
                   [st EXCEPT !.elseIfs = Append(@, [condition |-> c.e,
                                                     body |-> body.nodes])])

\* the else branch of the loop: alt is the parsed body
parseIfElse(toks, st, alt) ==
  IF ~alt.ok THEN ParseError
  ELSE parseIfLoop(toks, alt.p,
                   [st EXCEPT !.hasAlternate = TRUE, !.alternate = alt.nodes])

\* the last branch of the loop: r is the result of parseNode
parseIfPush(toks, st, r) ==
  IF ~r.ok THEN ParseError
  ELSE IF r.node = NullNode THEN parseIfLoop(toks, r.p, st)
  ELSE IF st.hasAlternate
       THEN parseIfLoop(toks, r.p, [st EXCEPT !.alternate = Append(@, r.node)])
  ELSE IF Len(st.elseIfs) > 0
       THEN parseIfLoop(toks, r.p,
              [st EXCEPT !.elseIfs[Len(st.elseIfs)].body = Append(@, r.node)])
  ELSE parseIfLoop(toks, r.p, [st EXCEPT !.consequent = Append(@, r.node)])

\* the `while (!this.isAtEnd())` loop of Parser.parseIf: [ok, st, p]
parseIfLoop(toks, p, st) ==
  IF isAtEnd(toks, p) THEN [ok |-> TRUE, st |-> st, p |-> p]
  ELSE IF toks[p].type = "TAG_START" /\ Trim(toks[p].value) = Chars("endif")
  THEN [ok |-> TRUE, st |-> st, p |-> p + 1]
  ELSE IF toks[p].type = "TAG_START" /\ StartsWith(Trim(toks[p].value), Chars("elif"))
  THEN parseIfElif(toks, st, parseBody(toks, p + 1, "elif", << >>),
                   parseExpressionText(Trim(DropTo(Trim(toks[p].value), 5))))
  ELSE IF toks[p].type = "TAG_START" /\ Trim(toks[p].value) = Chars("else")
  THEN parseIfElse(toks, st, parseBody(toks, p + 1, "else", << >>))
  ELSE parseIfPush(toks, st, parseNode(toks, p))

\* the ForNode built from the match m, the parsed iterable and the parsed body
forNodeOf(toks, m, it, body) ==
  IF ~it.ok \/ ~body.ok THEN ParseError
  ELSE NodeResult(ForNode(m.variable, m.hasIndexVar, m.indexVar, it.e, body.nodes),
                  IF isAtEnd(toks, body.p) THEN body.p ELSE body.p + 1)

\* Parser.parseFor after the match m of the for pattern
parseForBody(toks, p, m) ==
  IF ~m.ok THEN ParseError
  ELSE forNodeOf(toks, m, parseExpressionText(Trim(m.iterable)),
                 parseBody(toks, p, "for", << >>))

\* Parser.parseFor
parseFor(toks, p, content) == parseForBody(toks, p, ForMatch(content))

\* the BlockNode built from the match m and the parsed body
blockNodeOf(toks, m, body) ==
  IF ~body.ok THEN ParseError
  ELSE NodeResult(BlockNode(m.name, body.nodes),
                  IF isAtEnd(toks, body.p) THEN body.p ELSE body.p + 1)

\* Parser.parseBlock after the match m of the block pattern
parseBlockBody(toks, p, m) ==
  IF ~m.ok THEN ParseError
  ELSE blockNodeOf(toks, m, parseBody(toks, p, "block", << >>))

\* Parser.parseBlock
parseBlock(toks, p, content) == parseBlockBody(toks, p, BlockMatch(content))

\* Parser.parse
parse(toks) == parseBody(toks, 1, "top", << >>)

\* new Parser(template, delimiters).parse(); delimiters default to {{ }}
parseTemplate(template, delimiters) == parse(tokenize(template, delimiters))

(***************************************************************************)
(* JavaScript value semantics used by the runtime, the compiler and the    *)
(* filters                                                                 *)
(***************************************************************************)
\* a number outside the integers of the model (a fraction or an infinity)
Inexact == [t |-> "inexact"]

DigitChar(d) == <<"0", "1", "2", "3", "4", "5", "6", "7", "8", "9">>[d + 1]

RECURSIVE NatToDigits(_)
NatToDigits(n) ==
  IF n < 10 THEN <<DigitChar(n)>> ELSE NatToDigits(n \div 10) \o <<DigitChar(n % 10)>>

\* s1 + sep + s2 + sep + ... for a sequence of strings
RECURSIVE JoinStrings(_, _)
JoinStrings(strs, sep) ==
  IF Len(strs) = 0 THEN << >>
  ELSE IF Len(strs) = 1 THEN strs[1]
  ELSE strs[1] \o sep \o JoinStrings(Tail(strs), sep)

\* String(value); Array.prototype.join renders null and undefined elements as ''
RECURSIVE ToStr(_), ElementStrings(_)
ToStr(value) ==
  CASE value.t = "undefined" -> Chars("undefined")
    [] value.t = "null" -> Chars("null")
    [] value.t = "boolean" -> IF value.v THEN Chars("true") ELSE Chars("false")
    [] value.t = "number" -> IF value.v < 0 THEN <<"-">> \o NatToDigits(0 - value.v)
                             ELSE NatToDigits(value.v)
    [] value.t = "nan" -> Chars("NaN")
    [] value.t = "inexact" -> Chars("Infinity")
    [] value.t = "decimal" -> value.v
    [] value.t = "string" -> value.v
    [] value.t = "safe" -> value.v
    [] value.t = "array" -> JoinStrings(ElementStrings(value.v), <<",">>)
    [] value.t = "object" -> Chars("[object Object]")
    [] value.t = "function" -> Chars("function ") \o value.v

ElementStrings(items) ==
  IF Len(items) = 0 THEN << >>
  ELSE <<IF Head(items).t \in {"undefined", "null"} THEN << >> ELSE ToStr(Head(items))>>
         \o ElementStrings(Tail(items))

\* value == null
IsNullish(value) == value.t \in {"undefined", "null"}

\* JavaScript truthiness (Boolean(value), `!value`, `a && b`, `if (x)`)
JsTruthy(value) ==
  CASE value.t \in {"undefined", "null", "nan"} -> FALSE
    [] value.t = "boolean" -> value.v
    [] value.t = "number" -> value.v # 0
    [] value.t = "string" -> Len(value.v) > 0
    [] OTHER -> TRUE

\* typeof value === 'object' (null included)
TypeofObject(value) == value.t \in {"null", "array", "object", "safe"}

\* the own enumerable properties of a value of type object, as <<key, value>>
\* pairs: Object.entries
OwnEntries(value) ==
  CASE value.t = "object" -> value.v
    [] value.t = "array" -> [i \in 1..Len(value.v) |-> <<NatToDigits(i - 1), value.v[i]>>]
    [] value.t = "safe" -> <<<<Chars("value"), Str(value.v)>>>>
    [] OTHER -> << >>

\* the members of Object.prototype that the model covers: every plain object
\* (a context, the filter registry) inherits them
ObjectPrototypeFunctions ==
  {Chars("toString"), Chars("valueOf"), Chars("hasOwnProperty"),
   Chars("isPrototypeOf"), Chars("propertyIsEnumerable"), Chars("toLocaleString")}

\* the function value found under an inherited name
InheritedFn(key) == Fn(Chars("Object.prototype.") \o key)

HasOwn(entries, key) == \E i \in 1..Len(entries) : entries[i][1] = key

OwnValue(entries, key) == entries[CHOOSE i \in 1..Len(entries) : entries[i][1] = key][2]

\* value[key] for a value that is neither null nor undefined
GetProp(value, key) ==
  IF HasOwn(OwnEntries(value), key) THEN OwnValue(OwnEntries(value), key)
  ELSE IF value.t \in {"array", "string"} /\ key = Chars("length") THEN Num(Len(value.v))
  ELSE IF value.t = "string" /\ Len(key) > 0 /\ (\A i \in 1..Len(key) : key[i] \in Digits)
          /\ DigitsToNat(key) < Len(value.v)
       THEN Str(<<value.v[DigitsToNat(key) + 1]>>)
  ELSE IF key \in ObjectPrototypeFunctions THEN InheritedFn(key)
  ELSE Undefined

\* { ...obj, [key]: val }: an own property keeps its place, a new one is appended
ObjSet(entries, key, val) ==
  IF HasOwn(entries, key)
  THEN [i \in 1..Len(entries) |-> IF entries[i][1] = key THEN <<key, val>> ELSE entries[i]]
  ELSE Append(entries, <<key, val>>)

\* Number(s) for a string: whole decimal numbers are covered, '' is 0
StrToNumber(str) ==
  LET s == Trim(str)
  IN  IF \A i \in 1..Len(s) : s[i] \in Digits THEN Num(DigitsToNat(s)) ELSE NaN

\* Number(value)
ToNumber(value) ==
  CASE value.t = "number" -> value
    [] value.t = "null" -> Num(0)
    [] value.t = "boolean" -> Num(IF value.v THEN 1 ELSE 0)
    [] value.t \in {"string", "array", "safe"} -> StrToNumber(ToStr(value))
    [] value.t = "decimal" -> Inexact
    [] value.t = "inexact" -> Inexact
    [] OTHER -> NaN

\* values that ToPrimitive turns into a string
IsStringLike(value) == value.t \in {"string", "array", "object", "safe", "function"}

\* the printable ASCII characters in code order: codes 32..95 and 97..126
AsciiLow ==
  Chars(" !") \o <<"\"">> \o Chars("#$%&'()*+,-./0123456789:;<=>?@")
    \o Chars("ABCDEFGHIJKLMNOPQRSTUVWXYZ[") \o <<"\\">> \o Chars("]^_")

AsciiHigh == Chars("abcdefghijklmnopqrstuvwxyz{|}~")

CharCode(c) ==
  IF IndexOf(AsciiLow, c) > 0 THEN 31 + IndexOf(AsciiLow, c) ELSE 96 + IndexOf(AsciiHigh, c)

\* a < b for strings: comparison by code units
RECURSIVE StrLess(_, _)
StrLess(a, b) ==
  IF Len(b) = 0 THEN FALSE
  ELSE IF Len(a) = 0 THEN TRUE
  ELSE IF a[1] = b[1] THEN StrLess(Tail(a), Tail(b))
  ELSE CharCode(a[1]) < CharCode(b[1])

\* left + right
AddValues(l, r) ==
  IF IsStringLike(l) \/ IsStringLike(r) THEN Str(ToStr(l) \o ToStr(r))
  ELSE LET a == ToNumber(l)
           b == ToNumber(r)
       IN  IF a.t = "nan" \/ b.t = "nan" THEN NaN
           ELSE IF a.t = "inexact" \/ b.t = "inexact" THEN Inexact
           ELSE Num(a.v + b.v)

\* left - right, left * right, left / right, left % right
ArithValues(op, l, r) ==
  LET a == ToNumber(l)
      b == ToNumber(r)
      abs(n) == IF n < 0 THEN 0 - n ELSE n
  IN  IF a.t = "nan" \/ b.t = "nan" THEN NaN
      ELSE IF a.t = "inexact" \/ b.t = "inexact" THEN Inexact
      ELSE CASE op = "-" -> Num(a.v - b.v)
             [] op = "*" -> Num(a.v * b.v)
             [] op = "/" -> IF b.v = 0 THEN (IF a.v = 0 THEN NaN ELSE Inexact)
                            ELSE IF abs(a.v) % abs(b.v) = 0
                                 THEN Num((IF (a.v < 0) = (b.v < 0) THEN 1 ELSE -1)
                                            * (abs(a.v) \div abs(b.v)))
                                 ELSE Inexact
             [] op = "%" -> IF b.v = 0 THEN NaN
                            ELSE Num((IF a.v < 0 THEN -1 ELSE 1) * (abs(a.v) % abs(b.v)))

\* left == right (loose equality).  Arrays, objects and functions have no
\* identity in the model: two of them are taken to be the same object exactly
\* when they are structurally equal.
RECURSIVE LooseEq(_, _)
LooseEq(l, r) ==
  IF l.t = r.t THEN l.t # "nan" /\ l = r
  ELSE IF IsNullish(l) \/ IsNullish(r) THEN IsNullish(l) /\ IsNullish(r)
  ELSE IF l.t = "boolean" THEN LooseEq(ToNumber(l), r)
  ELSE IF r.t = "boolean" THEN LooseEq(l, ToNumber(r))
  ELSE IF l.t \in {"nan", "inexact", "decimal"} \/ r.t \in {"nan", "inexact", "decimal"}
       THEN FALSE
  ELSE IF l.t = "number" THEN ToNumber(r) = l
  ELSE IF r.t = "number" THEN ToNumber(l) = r
  ELSE ToStr(l) = ToStr(r)

\* left < right
LessValues(l, r) ==
  IF IsStringLike(l) /\ IsStringLike(r) THEN StrLess(ToStr(l), ToStr(r))
  ELSE LET a == ToNumber(l)
           b == ToNumber(r)
       IN  a.t = "number" /\ b.t = "number" /\ a.v < b.v

\* left <= right
LessEqValues(l, r) ==
  IF IsStringLike(l) /\ IsStringLike(r) THEN ~StrLess(ToStr(r), ToStr(l))
  ELSE LET a == ToNumber(l)
           b == ToNumber(r)
       IN  a.t = "number" /\ b.t = "number" /\ a.v <= b.v

(***************************************************************************)
(* Escaping (utils/escape.ts)                                              *)
(***************************************************************************)
\* HTML_ENTITIES without the entries for ' and /
HtmlEntityNoSlash(ch) ==
  CASE ch = "&" -> Chars("&amp;")
    [] ch = "<" -> Chars("&lt;")
    [] ch = ">" -> Chars("&gt;")
    [] ch = "\"" -> Chars("&quot;")
    [] OTHER -> <<ch>>

\* HTML_ENTITIES[ch] for the characters HTML_ENTITY_REGEX matches
HtmlEntity(ch) ==
  CASE ch = "&" -> Chars("&amp;")
    [] ch = "<" -> Chars("&lt;")
    [] ch = ">" -> Chars("&gt;")
    [] ch = "\"" -> Chars("&quot;")
    [] ch = "'" -> Chars("&#x27;")
    [] ch = "/" -> Chars("&#x2F;")
    [] OTHER -> <<ch>>

\* escapeHtml on a string
RECURSIVE escapeHtml(_)
escapeHtml(str) ==
  IF Len(str) = 0 THEN << >>
  ELSE IF Len(str) = 1 THEN HtmlEntity(str[1])
  ELSE escapeHtml(SubSeq(str, 1, Len(str) \div 2))
         \o escapeHtml(SubSeq(str, Len(str) \div 2 + 1, Len(str)))

\* ensureSafe without the isSafeString test
ensureSafeEscapesSafe(value, autoEscape) ==
  LET strValue == IF IsNullish(value) THEN << >> ELSE ToStr(value)
  IN  IF autoEscape THEN escapeHtml(strValue) ELSE strValue

\* ensureSafe
ensureSafe(value, autoEscape) ==
  IF value.t = "safe" THEN value.v
  ELSE LET strValue == IF IsNullish(value) THEN << >> ELSE ToStr(value)
       IN  IF autoEscape THEN escapeHtml(strValue) ELSE strValue

(***************************************************************************)
(* Filters (filters.ts) and the other functions a value can be: a function *)
(* is identified by name and applied by ApplyFunction, which returns       *)
(* [ok, v] (ok = FALSE when the call throws).                              *)
(***************************************************************************)
LowerSeq == Chars("abcdefghijklmnopqrstuvwxyz")
UpperSeq == Chars("ABCDEFGHIJKLMNOPQRSTUVWXYZ")

\* String.prototype.toUpperCase / toLowerCase
ToUpperCase(s) ==
  [i \in 1..Len(s) |-> IF s[i] \in LowerLetters THEN UpperSeq[IndexOf(LowerSeq, s[i])] ELSE s[i]]
ToLowerCase(s) ==
  [i \in 1..Len(s) |-> IF s[i] \in UpperLetters THEN LowerSeq[IndexOf(UpperSeq, s[i])] ELSE s[i]]

\* the escape filter's chain of replace calls: & < > " ' are replaced, / is not
RECURSIVE escapeFilter(_)
escapeFilter(str) ==
  IF Len(str) = 0 THEN << >>
  ELSE (IF Head(str) = "/" THEN <<"/">> ELSE HtmlEntity(Head(str)))
         \o escapeFilter(Tail(str))

\* str.replace(new RegExp(search, 'g'), replacement) for a search text without
\* regular-expression metacharacters and a replacement without $: every
\* occurrence, left to right; the empty pattern matches before every character
\* and at the end
RECURSIVE ReplaceAll(_, _, _)
ReplaceAll(str, search, replacement) ==
  IF Len(search) = 0
  THEN [i \in 1..((Len(str) * (Len(replacement) + 1)) + Len(replacement)) |->
          IF ((i - 1) % (Len(replacement) + 1)) < Len(replacement)
          THEN replacement[((i - 1) % (Len(replacement) + 1)) + 1]
          ELSE str[((i - 1) \div (Len(replacement) + 1)) + 1]]
  ELSE IF Len(str) = 0 THEN << >>
  ELSE IF StartsWith(str, search)
       THEN replacement \o ReplaceAll(DropTo(str, Len(search) + 1), search, replacement)
  ELSE <<Head(str)>> \o ReplaceAll(Tail(str), search, replacement)

\* the i-th argument of a call, undefined when it was not passed
ArgAt(args, i) == IF i <= Len(args) THEN args[i] ELSE Undefined

\* the builtin filters that the model covers
BuiltinFilterNames ==
  {Chars("upper"), Chars("lower"), Chars("capitalize"), Chars("trim"),
   Chars("length"), Chars("join"), Chars("default"), Chars("safe"),
   Chars("escape"), Chars("replace")}

\* builtinFilters: name -> function
builtinFilters == [n \in BuiltinFilterNames |-> Fn(n)]

\* functions supplied by the user of the engine (custom filters, context
\* functions): exclaim is (value) => value + '!!!', shout is
\* (value) => value.toUpperCase() + '!!!'
UserFunctions == {Fn(Chars("exclaim")), Fn(Chars("shout"))}

\* fn(...args)
ApplyFunction(name, args) ==
  LET value == ArgAt(args, 1)
  IN  CASE name = Chars("upper") -> [ok |-> TRUE, v |-> Str(ToUpperCase(ToStr(value)))]
        [] name = Chars("lower") -> [ok |-> TRUE, v |-> Str(ToLowerCase(ToStr(value)))]
        [] name = Chars("capitalize") ->
             LET str == ToStr(value)
             IN  [ok |-> TRUE,
                  v |-> Str(ToUpperCase(SubSeq(str, 1, Min(1, Len(str))))
                              \o ToLowerCase(DropTo(str, 2)))]
        [] name = Chars("trim") -> [ok |-> TRUE, v |-> Str(Trim(ToStr(value)))]
        [] name = Chars("length") ->
             [ok |-> TRUE,
              v |-> IF value.t \in {"array", "string"} THEN Num(Len(value.v))
                    ELSE IF TypeofObject(value) /\ value.t # "null"
                         THEN Num(Len(OwnEntries(value)))
                    ELSE Num(0)]
        [] name = Chars("join") ->
             LET separator == IF ArgAt(args, 2) = Undefined THEN Chars(", ")
                              ELSE ToStr(ArgAt(args, 2))
             IN  [ok |-> TRUE,
                  v |-> IF value.t = "array"
                        THEN Str(JoinStrings(ElementStrings(value.v), separator))
                        ELSE Str(ToStr(value))]
        [] name = Chars("default") ->
             [ok |-> TRUE,
              v |-> IF IsNullish(value) \/ value = Str(<< >>) THEN ArgAt(args, 2) ELSE value]
        [] name = Chars("replace") ->
             \* new RegExp(undefined) is the empty pattern
             [ok |-> TRUE,
              v |-> Str(ReplaceAll(ToStr(value),
                                   IF ArgAt(args, 2) = Undefined THEN << >>
                                   ELSE ToStr(ArgAt(args, 2)),
                                   ToStr(ArgAt(args, 3))))]
        [] name = Chars("safe") -> [ok |-> TRUE, v |-> SafeString(ToStr(value))]
        [] name = Chars("escape") -> [ok |-> TRUE, v |-> Str(escapeFilter(ToStr(value)))]
        [] name = Chars("exclaim") ->
             [ok |-> TRUE, v |-> AddValues(value, Str(Chars("!!!")))]
        [] name = Chars("shout") ->
             IF value.t = "string"
             THEN [ok |-> TRUE, v |-> Str(ToUpperCase(value.v) \o Chars("!!!"))]
             ELSE [ok |-> FALSE]
        \* members of Object.prototype, called with `this` undefined
        [] name = Chars("Object.prototype.toString") ->
             [ok |-> TRUE, v |-> Str(Chars("[object Undefined]"))]
        [] name = Chars("Object.prototype.isPrototypeOf") ->
             IF TypeofObject(value) /\ value.t # "null" THEN [ok |-> FALSE]
             ELSE [ok |-> TRUE, v |-> Bool(FALSE)]
        [] OTHER -> [ok |-> FALSE]

(***************************************************************************)
(* Runtime (runtime.ts).  An evaluation returns [ok, v]; ok = FALSE when   *)
(* the code throws.                                                        *)
(***************************************************************************)
Value(v) == [ok |-> TRUE, v |-> v]
Throws == [ok |-> FALSE]

\* fn(...args) for a function value
CallFunction(fn, args) == ApplyFunction(fn.v, args)

\* Runtime.evaluateVariable: the walk over the dotted parts
RECURSIVE walkParts(_, _)
walkParts(value, parts) ==
  IF Len(parts) = 0 THEN value
  ELSE IF IsNullish(value) THEN Undefined
  ELSE walkParts(GetProp(value, Head(parts)), Tail(parts))

evaluateVariable(expr, context) == walkParts(context, SplitOn(expr.name, "."))

\* the switch of Runtime.evaluateBinary on two evaluated operands
binaryResult(operator, left, right) ==
  CASE operator = Chars("+") -> Value(AddValues(left, right))
    [] operator = Chars("-") -> Value(ArithValues("-", left, right))
    [] operator = Chars("*") -> Value(ArithValues("*", left, right))
    [] operator = Chars("/") -> Value(ArithValues("/", left, right))
    [] operator = Chars("%") -> Value(ArithValues("%", left, right))
    [] operator = Chars("==") -> Value(Bool(LooseEq(left, right)))
    [] operator = Chars("!=") -> Value(Bool(~LooseEq(left, right)))
    [] operator = Chars("<") -> Value(Bool(LessValues(left, right)))
    [] operator = Chars("<=") -> Value(Bool(LessEqValues(left, right)))
    [] operator = Chars(">") -> Value(Bool(LessValues(right, left)))
    [] operator = Chars(">=") -> Value(Bool(LessEqValues(right, left)))
    [] operator = Chars("and") -> Value(IF JsTruthy(left) THEN right ELSE left)
    [] operator = Chars("or") -> Value(IF JsTruthy(left) THEN left ELSE right)
    [] OTHER -> Throws

\* the switch of Runtime.evaluateUnary on the evaluated argument
unaryResult(operator, arg) ==
  CASE operator = Chars("-") -> Value(ArithValues("-", Num(0), arg))
    [] operator \in {Chars("!"), Chars("not")} -> Value(Bool(~JsTruthy(arg)))
    [] OTHER -> Throws

RECURSIVE evaluateExpression(_, _), evaluateBinary(_, _), evaluateUnary(_, _),
          evaluateMember(_, _), evaluateCall(_, _), evaluateArgs(_, _)

\* Runtime.evaluateExpression
evaluateExpression(expr, context) ==
  CASE expr.type = "literal" -> Value(expr.value)
    [] expr.type = "variable" -> Value(evaluateVariable(expr, context))
    [] expr.type = "binary" -> evaluateBinary(expr, context)
    [] expr.type = "unary" -> evaluateUnary(expr, context)
    [] expr.type = "member" -> evaluateMember(expr, context)
    [] expr.type = "call" -> evaluateCall(expr, context)
    [] OTHER -> Throws

\* the switch applied to the two evaluations; a throw of either propagates
binaryApply(operator, left, right) ==
  IF ~left.ok \/ ~right.ok THEN Throws ELSE binaryResult(operator, left.v, right.v)

\* Runtime.evaluateBinary: both operands are evaluated before the switch
evaluateBinary(expr, context) ==
  binaryApply(expr.operator, evaluateExpression(expr.left, context),
              evaluateExpression(expr.right, context))

\* the switch applied to the evaluation of the argument
unaryApply(operator, arg) ==
  IF ~arg.ok THEN Throws ELSE unaryResult(operator, arg.v)

\* Runtime.evaluateUnary
evaluateUnary(expr, context) ==
  unaryApply(expr.operator, evaluateExpression(expr.argument, context))

\* obj?.[property] on the evaluation of the object
memberOf(obj, property) ==
  IF ~obj.ok THEN Throws
  ELSE IF IsNullish(obj.v) THEN Value(Undefined)
  ELSE Value(GetProp(obj.v, property))

\* Runtime.evaluateMember
evaluateMember(expr, context) ==
  memberOf(evaluateExpression(expr.object, context), expr.property)

\* the evaluated argument a put in front of the evaluated rest: [ok, args]
argsOf(a, rest) ==
  IF ~a.ok \/ ~rest.ok THEN [ok |-> FALSE]
  ELSE [ok |-> TRUE, args |-> <<a.v>> \o rest.args]

\* expr.arguments.map(evaluateExpression): [ok, args]
evaluateArgs(arguments, context) ==
  IF Len(arguments) = 0 THEN [ok |-> TRUE, args |-> << >>]
  ELSE argsOf(evaluateExpression(Head(arguments), context),
              evaluateArgs(Tail(arguments), context))

\* a call that yields undefined when the callee is not a function
callApplyLenient(fn, a) ==
  IF ~fn.ok THEN Throws
  ELSE IF fn.v.t # "function" THEN Value(Undefined)
  ELSE IF ~a.ok THEN Throws
  ELSE CallFunction(fn.v, a.args)

\* the call of the evaluated callee on the evaluated arguments
callApply(fn, a) ==
  IF ~fn.ok THEN Throws
  ELSE IF fn.v.t # "function" THEN Throws
  ELSE IF ~a.ok THEN Throws
  ELSE CallFunction(fn.v, a.args)

\* Runtime.evaluateCall
evaluateCall(expr, context) ==
  callApply(evaluateExpression(expr.callee, context),
            evaluateArgs(expr.arguments, context))

\* Runtime.isTruthy
isTruthy(value) ==
  IF value.t \in {"null", "undefined"} \/ value = Bool(FALSE) THEN FALSE
  ELSE IF value.t = "array" /\ Len(value.v) = 0 THEN FALSE
  ELSE IF TypeofObject(value) /\ Len(OwnEntries(value)) = 0 THEN FALSE
  ELSE JsTruthy(value)

\* typeof value === 'number'
TypeofNumber(value) == value.t \in {"number", "decimal", "nan", "inexact"}

\* the length Array.from({ length: value }) gives its result for a number:
\* the value truncated toward zero, 0 when it is negative or NaN (an inexact
\* number has no length in the model)
ToLength(value) ==
  CASE value.t = "number" -> IF value.v >= 0 THEN value.v ELSE 0
    [] value.t = "decimal" -> DigitsToNat(SubSeq(value.v, 1, RunEnd(value.v, 1, Digits) - 1))
    [] OTHER -> 0

\* Runtime.getIterable
getIterable(value) ==
  IF value.t = "array" THEN value.v
  ELSE IF TypeofObject(value) /\ value.t # "null"
       THEN [i \in 1..Len(OwnEntries(value)) |->
               Arr(<<Str(OwnEntries(value)[i][1]), OwnEntries(value)[i][2]>>)]
  ELSE IF TypeofNumber(value) THEN [i \in 1..ToLength(value) |-> Num(i - 1)]
  ELSE << >>

(***************************************************************************)
(* Compiler (compiler.ts).  options is the record built by the Compiler    *)
(* constructor: [autoEscape, strictMode, filters, hasLoader]; filters maps *)
(* the own property names of the registry object to function values.  A    *)
(* render returns [ok, out]; ok = FALSE when the code throws.  The         *)
(* Compiler.blocks map is only ever written, never read, and is left out.  *)
(***************************************************************************)
Rendered(out) == [ok |-> TRUE, out |-> out]
RenderError == [ok |-> FALSE]

\* new Compiler(options, templateLoader).options: the registry is a fresh
\* object holding the builtin filters overridden by options.filters
CompilerOptions(autoEscape, strictMode, filters, hasLoader) ==
  [autoEscape |-> autoEscape, strictMode |-> strictMode,
   filters |-> [n \in BuiltinFilterNames \cup DOMAIN filters |->
                  IF n \in DOMAIN filters THEN filters[n] ELSE builtinFilters[n]],
   hasLoader |-> hasLoader]

\* this.options.filters[name]: an own property, else a member inherited from
\* Object.prototype, else undefined
LookupFilter(filters, name) ==
  IF name \in DOMAIN filters THEN filters[name]
  ELSE IF name \in ObjectPrototypeFunctions THEN InheritedFn(name)
  ELSE Undefined

\* the for loop of Compiler.getVariable over the dotted parts: [ok, v]
RECURSIVE getVariableWalk(_, _, _)
getVariableWalk(value, parts, strictMode) ==
  IF Len(parts) = 0 THEN Value(value)
  ELSE IF IsNullish(value)
       THEN IF strictMode THEN Throws ELSE Value(Str(<< >>))
  ELSE getVariableWalk(GetProp(value, Head(parts)), Tail(parts), strictMode)

\* the end of Compiler.getVariable, r being the outcome of the loop
getVariableEnd(r, strictMode) ==
  IF ~r.ok THEN Throws
  ELSE IF r.v = Undefined /\ strictMode THEN Throws
  ELSE IF IsNullish(r.v) THEN Value(Str(<< >>))
  ELSE r

\* Compiler.getVariable
getVariable(name, context, options) ==
  getVariableEnd(getVariableWalk(context, SplitOn(name, "."), options.strictMode),
                 options.strictMode)

\* filterFn(value, ...filter.args)
\* ...filter.args: the arguments as the parser stored them, which are strings
filterArgs(args) == [i \in 1..Len(args) |-> Str(args[i])]

callFilter(filterFn, value, args) ==
  IF filterFn.t = "function"
  THEN CallFunction(filterFn, <<value>> \o filterArgs(args))
  ELSE Throws

RECURSIVE applyFilters(_, _, _), applyFilter(_, _, _, _), applyFiltersNext(_, _, _)

\* the filter loop of Compiler.renderVariable: [ok, v]
applyFilters(value, filters, options) ==
  IF Len(filters) = 0 THEN Value(value)
  ELSE applyFilter(value, filters, options,
                   LookupFilter(options.filters, Head(filters).name))

\* one round of the filter loop, filterFn being the looked-up filter
applyFilter(value, filters, options, filterFn) ==
  IF JsTruthy(filterFn)
  THEN applyFiltersNext(callFilter(filterFn, value, Head(filters).args),
                        Tail(filters), options)
  ELSE IF options.strictMode THEN Throws
  ELSE applyFilters(value, Tail(filters), options)

\* the rest of the loop after a filter call returned r
applyFiltersNext(r, filters, options) ==
  IF r.ok THEN applyFilters(r.v, filters, options) ELSE Throws

\* ensureSafe(value, autoEscape) on the outcome of the filter loop
renderValue(r, autoEscape) ==
  IF r.ok THEN Rendered(ensureSafe(r.v, autoEscape)) ELSE RenderError

\* the filter loop on the outcome of getVariable
renderFiltered(value, filters, options) ==
  IF ~value.ok THEN RenderError
  ELSE renderValue(applyFilters(value.v, filters, options), options.autoEscape)

\* Compiler.renderVariable
renderVariable(node, context, options) ==
  renderFiltered(getVariable(node.name, context, options), node.filters, options)

\* Compiler.renderInclude
renderInclude(node, options) ==
  IF ~options.hasLoader
  THEN IF options.strictMode THEN RenderError ELSE Rendered(<< >>)
  ELSE Rendered(Chars("<!-- include: ") \o node.template \o Chars(" -->"))

\* the `loop` object with `last: i === items.length`
loopObjectLastPastEnd(i, n) ==
  Obj(<< <<Chars("index"), Num(i)>>, <<Chars("index0"), Num(i)>>,
         <<Chars("index1"), Num(i + 1)>>, <<Chars("first"), Bool(i = 0)>>,
         <<Chars("last"), Bool(i = n)>>, <<Chars("length"), Num(n)>> >>)

\* the `loop` object of iteration i (0-based) over n items
loopObject(i, n) ==
  Obj(<< <<Chars("index"), Num(i)>>, <<Chars("index0"), Num(i)>>,
         <<Chars("index1"), Num(i + 1)>>, <<Chars("first"), Bool(i = 0)>>,
         <<Chars("last"), Bool(i = n - 1)>>, <<Chars("length"), Num(n)>> >>)

\* the loop context with the index variable added when the node has one
withIndexVar(node, base, i) ==
  Obj(IF node.hasIndexVar THEN ObjSet(base, node.indexVar, Num(i)) ELSE base)

\* a loop context that does not take over the bindings of the parent
loopContextWithoutParent(node, context, items, i) ==
  withIndexVar(node,
               ObjSet(ObjSet(<< >>, node.variable, items[i + 1]),
                      Chars("loop"), loopObject(i, Len(items))),
               i)

\* the loop context of iteration i (0-based) of Compiler.renderFor
loopContext(node, context, items, i) ==
  withIndexVar(node,
               ObjSet(ObjSet(OwnEntries(context), node.variable, items[i + 1]),
                      Chars("loop"), loopObject(i, Len(items))),
               i)

\* the output of two consecutive renders; a throw of either propagates
joinRendered(first, rest) ==
  IF ~first.ok \/ ~rest.ok THEN RenderError ELSE Rendered(first.out \o rest.out)

RECURSIVE renderNodes(_, _, _), renderNode(_, _, _), renderIf(_, _, _),
          renderElseIfs(_, _, _, _), renderFor(_, _, _), renderForFrom(_, _, _, _, _),
          renderElseIf(_, _, _, _, _), renderIfNoElif(_, _, _), renderBranch(_, _, _, _),
          renderItems(_, _, _, _)

\* Compiler.renderNodes
renderNodes(nodes, context, options) ==
  IF Len(nodes) = 0 THEN Rendered(<< >>)
  ELSE joinRendered(renderNode(Head(nodes), context, options),
                    renderNodes(Tail(nodes), context, options))

\* Compiler.renderNode (renderText and renderBlock inlined)
renderNode(node, context, options) ==
  CASE node.type = "text" -> Rendered(node.value)
    [] node.type = "variable" -> renderVariable(node, context, options)
    [] node.type = "if" -> renderIf(node, context, options)
    [] node.type = "for" -> renderFor(node, context, options)
    [] node.type = "include" -> renderInclude(node, options)
    [] node.type = "block" -> renderNodes(node.body, context, options)
    [] OTHER -> Rendered(<< >>)

\* the elif loop and the else branch of Compiler.renderIf
renderElseIfs(elseIfs, node, context, options) ==
  IF Len(elseIfs) = 0
  THEN IF node.hasAlternate THEN renderNodes(node.alternate, context, options)
       ELSE Rendered(<< >>)
  ELSE renderElseIf(elseIfs, node, context, options,
                    evaluateExpression(Head(elseIfs).condition, context))

\* one round of the elif loop, elifCondition being the evaluated condition
renderElseIf(elseIfs, node, context, options, elifCondition) ==
  IF ~elifCondition.ok THEN RenderError
  ELSE IF isTruthy(elifCondition.v)
       THEN renderNodes(Head(elseIfs).body, context, options)
  ELSE renderElseIfs(Tail(elseIfs), node, context, options)

\* the body of Compiler.renderIf after the if condition was evaluated
renderBranch(node, context, options, condition) ==
  IF ~condition.ok THEN RenderError
  ELSE IF isTruthy(condition.v) THEN renderNodes(node.consequent, context, options)
  ELSE renderElseIfs(node.elseIfs, node, context, options)

\* renderIf that tests the if and elif conditions but never renders the elif
\* bodies: a truthy elif renders nothing
renderIfNoElif(node, context, options) ==
  renderBranch([node EXCEPT !.elseIfs =
                  [i \in 1..Len(node.elseIfs) |->
                     [node.elseIfs[i] EXCEPT !.body = << >>]]],
               context, options, evaluateExpression(node.condition, context))

\* Compiler.renderIf
renderIf(node, context, options) ==
  renderBranch(node, context, options, evaluateExpression(node.condition, context))

\* the for loop of Compiler.renderFor from iteration i on
renderForFrom(node, context, options, items, i) ==
  IF i >= Len(items) THEN Rendered(<< >>)
  ELSE joinRendered(renderNodes(node.body, loopContext(node, context, items, i), options),
                    renderForFrom(node, context, options, items, i + 1))

\* the for loop over the evaluated iterable
renderItems(node, context, options, iterable) ==
  IF ~iterable.ok THEN RenderError
  ELSE renderForFrom(node, context, options, getIterable(iterable.v), 0)

\* Compiler.renderFor
renderFor(node, context, options) ==
  renderItems(node, context, options, evaluateExpression(node.iterable, context))

\* Compiler.compile: the compiled template keeps the AST and, through its
\* render closure, the Compiler that built it (hence that Compiler's options)
compile(ast, options) == [ast |-> ast, options |-> options]

\* CompiledTemplate.render
compiledRender(compiled, context) == renderNodes(compiled.ast, context, compiled.options)

(***************************************************************************)
(* Template (template.ts).  An instance is the record [autoEscape,         *)
(* strictMode, cacheOn, filters, compiler, cache]: filters is the          *)
(* reference held by this.options.filters ("none" when the options carry   *)
(* no filters), compiler the options of this.compiler, cache the           *)
(* TemplateCache.  A call returns [ok |-> TRUE, out] or [ok |-> FALSE,     *)
(* err] with err "parse" or "runtime".                                     *)
(***************************************************************************)
ParseFailure == [ok |-> FALSE, err |-> "parse"]
RuntimeFailure == [ok |-> FALSE, err |-> "runtime"]
NoResult == [ok |-> FALSE, err |-> "none"]

\* what the caller of compiled.render observes
CallResult(r) == IF r.ok THEN r ELSE RuntimeFailure

\* new Template(options): record is the content of options.filters
NewTemplate(strictMode, cacheOn, filters, record) ==
  [autoEscape |-> TRUE, strictMode |-> strictMode, cacheOn |-> cacheOn,
   filters |-> filters,
   compiler |-> CompilerOptions(TRUE, strictMode,
                                IF filters = "none" THEN << >> ELSE record, TRUE),
   cache |-> NewTemplateCache(DefaultMaxSize)]

\* Compiler.compile on the outcome of the parse: [ok, template]
compiledOf(ast, opts) ==
  IF ast.ok THEN [ok |-> TRUE, template |-> compile(ast.nodes, opts)]
  ELSE [ok |-> FALSE]

\* Template.compile: parse, then Compiler.compile; [ok, template]
templateCompile(template, opts) ==
  compiledOf(parseTemplate(template, DefaultDelimiters), opts)

\* compiled.render(context) on the outcome of Template.compile
renderOf(c, context) ==
  IF c.ok THEN CallResult(compiledRender(c.template, context)) ELSE ParseFailure

\* Template.compile(template).render(context)
compileAndRender(opts, template, context) ==
  renderOf(templateCompile(template, opts), context)

\* const cacheKey = this.options.cache ? template : ''
CacheKey(engine, template) == IF engine.cacheOn THEN template ELSE EmptyStr

\* this.options.cache && cacheKey
CacheUsed(engine, cacheKey) == engine.cacheOn /\ cacheKey # EmptyStr

\* the branch of Template.render that finds the template in the cache:
\* [engine, hit, ok, compiled], engine being the instance after the lookup
lookupCached(engine, cacheKey) ==
  [engine |-> [engine EXCEPT !.cache = CacheGetState(@, cacheKey)],
   hit |-> TRUE, ok |-> TRUE,
   compiled |-> CacheGetResult(engine.cache, cacheKey).template]

\* this.compiler.compile(ast) followed by the conditional cache.set
storeCompiled(engine, cacheKey, compiled) ==
  [engine |-> IF CacheUsed(engine, cacheKey)
              THEN [engine EXCEPT !.cache = CacheSet(@, cacheKey, compiled)]
              ELSE engine,
   hit |-> FALSE, ok |-> TRUE, compiled |-> compiled]

\* the parsing branch, storing an empty compiled template for a source that
\* does not parse before the error is reported
lookupParsedCachesFailure(engine, cacheKey, ast) ==
  IF ~ast.ok
  THEN [storeCompiled(engine, cacheKey, compile(<< >>, engine.compiler))
          EXCEPT !.ok = FALSE]
  ELSE storeCompiled(engine, cacheKey, compile(ast.nodes, engine.compiler))

\* the branch of Template.render that parses and compiles, ast being the
\* outcome of parser.parse(): a parse error leaves the instance as it is
lookupParsed(engine, cacheKey, ast) ==
  IF ~ast.ok
  THEN [engine |-> engine, hit |-> FALSE, ok |-> FALSE, compiled |-> << >>]
  ELSE storeCompiled(engine, cacheKey, compile(ast.nodes, engine.compiler))

\* return compiled.render(context), on either branch
renderLookedUp(found, context) ==
  [engine |-> found.engine, hit |-> found.hit,
   result |-> IF found.ok THEN CallResult(compiledRender(found.compiled, context))
              ELSE ParseFailure]

\* Template.render with its cache key
renderKeyed(engine, template, context, cacheKey) ==
  renderLookedUp(
    IF CacheUsed(engine, cacheKey) /\ CacheHas(engine.cache, cacheKey)
         /\ CacheGetResult(engine.cache, cacheKey).found
    THEN lookupCached(engine, cacheKey)
    ELSE lookupParsed(engine, cacheKey, parseTemplate(template, DefaultDelimiters)),
    context)

\* Template.render: [engine, hit, result], engine being the instance after
\* the call and hit telling whether the cached template was used
templateRender(engine, template, context) ==
  renderKeyed(engine, template, context, CacheKey(engine, template))

\* this.options.filters[name] = fn followed by new Compiler(this.options):
\* ref is the record written and rec its content before the write
addFilterTo(engine, ref, rec, name, fn) ==
  [engine |-> [engine EXCEPT
                 !.filters = ref,
                 !.compiler = CompilerOptions(engine.autoEscape, engine.strictMode,
                                              MapSet(rec, name, fn), TRUE)],
   ref |-> ref,
   record |-> MapSet(rec, name, fn)]

\* Template.addFilter: record is the content of this.options.filters before
\* the call, ownRef the reference of the object created when there is none;
\* [engine, ref, record] with ref the record written and record its content
templateAddFilter(engine, record, ownRef, name, fn) ==
  IF engine.filters = "none"
  THEN addFilterTo(engine, ownRef, << >>, name, fn)
  ELSE addFilterTo(engine, engine.filters, record, name, fn)

\* Template.clearCache
templateClearCache(engine) == [engine EXCEPT !.cache = CacheClear(@)]

\* the engine variables while no Template instance is exercised
EngineIdle ==
  /\ engines = << >>
  /\ heap = << >>
  /\ solo = << >>
  /\ soloHeap = << >>
  /\ added = << >>
  /\ calls = 0
  /\ lastCall = [op |-> "new"]
  /\ loading = << >>

(***************************************************************************)
(* Specification SpecCache: a TemplateCache driven by its public methods   *)
(***************************************************************************)
MaxCap == 2          \* largest capacity the cache is constructed with
MaxOps == 5          \* number of cache operations explored

CacheKeys == {EmptyStr, Chars("a"), Chars("b"), Chars("c")}
MockTemplates == {"t1", "t2"}

\* the pipeline variables while no template is being compiled
PipelineIdle ==
  /\ pc = "idle"
  /\ pShape = << >>
  /\ pSource = << >>
  /\ pContext = Undefined
  /\ pOptions = << >>
  /\ pCompiled = [ok |-> FALSE]
  /\ pOutput = [ok |-> FALSE]
  /\ position = 1
  /\ tokens = << >>

InitCache ==
  /\ \E n \in 0..MaxCap : tcache = NewTemplateCache(n)
  /\ clock = 0
  /\ lastUse = [k \in CacheKeys |-> 0]
  /\ lastOp = [op |-> "new", key |-> EmptyStr]
  /\ PipelineIdle
  /\ EngineIdle

DoSet(key, template) ==
  /\ clock < MaxOps
  /\ UNCHANGED pipelineVars
  /\ UNCHANGED engineVars
  /\ tcache' = CacheSet(tcache, key, template)
  /\ clock' = clock + 1
  /\ lastUse' = [lastUse EXCEPT ![key] = clock + 1]
  /\ lastOp' = [op |-> "set", key |-> key]

DoGet(key) ==
  /\ clock < MaxOps
  /\ UNCHANGED pipelineVars
  /\ UNCHANGED engineVars
  /\ tcache' = CacheGetState(tcache, key)
  /\ clock' = clock + 1
  /\ lastUse' = IF CacheGetResult(tcache, key).found
                THEN [lastUse EXCEPT ![key] = clock + 1] ELSE lastUse
  /\ lastOp' = [op |-> "get", key |-> key]

DoHas(key) ==
  /\ clock < MaxOps
  /\ UNCHANGED pipelineVars
  /\ UNCHANGED engineVars
  /\ clock' = clock + 1
  /\ lastOp' = [op |-> "has", key |-> key]
  /\ UNCHANGED <<tcache, lastUse>>

DoClear ==
  /\ clock < MaxOps
  /\ UNCHANGED pipelineVars
  /\ UNCHANGED engineVars
  /\ tcache' = CacheClear(tcache)
  /\ clock' = clock + 1
  /\ lastOp' = [op |-> "clear", key |-> EmptyStr]
  /\ UNCHANGED lastUse

NextCache ==
  \/ \E k \in CacheKeys, t \in MockTemplates : DoSet(k, t)
  \/ \E k \in CacheKeys : DoGet(k)
  \/ \E k \in CacheKeys : DoHas(k)
  \/ DoClear

SpecCache == InitCache /\ [][NextCache]_vars

(***************************************************************************)
(* C1: for a TemplateCache built with capacity N >= 0, after any sequence  *)
(* of set, get, has and clear calls with any string keys (the empty string *)
(* included), size is never greater than N.                                *)
(***************************************************************************)
C1_SizeWithinCapacity == CacheSize(tcache) <= tcache.maxSize

(***************************************************************************)
(* C2: eviction is least-recently-used.  A set of an absent key while the  *)
(* cache holds N = capacity entries (N >= 1) removes exactly one entry,    *)
(* the one whose latest set or hitting get is the oldest; a set of a key   *)
(* already present evicts nothing.                                         *)
(***************************************************************************)
C2_LruEviction ==
  [][ (clock' # clock /\ lastOp'.op = "set") =>
        LET k    == lastOp'.key
            keys == DOMAIN tcache.cache
        IN  IF k \in keys
            THEN DOMAIN tcache'.cache = keys
            ELSE (tcache.maxSize >= 1 /\ Cardinality(keys) = tcache.maxSize) =>
                   \E v \in keys :
                     /\ \A w \in keys : lastUse[v] <= lastUse[w]
                     /\ DOMAIN tcache'.cache = (keys \ {v}) \cup {k}
    ]_vars

(***************************************************************************)
(* The compile-and-render pipeline: Template.compile(source) followed by   *)
(* CompiledTemplate.render(context) on an engine built with the given      *)
(* options.  The specifications below differ only in the family of         *)
(* templates, contexts and options their initial states are drawn from.    *)
(***************************************************************************)
\* the cache variables while no cache is being exercised
CacheIdle ==
  /\ tcache = NewTemplateCache(DefaultMaxSize)
  /\ clock = 0
  /\ lastUse = [k \in CacheKeys |-> 0]
  /\ lastOp = [op |-> "new", key |-> EmptyStr]

\* the pipeline before Template.compile is called
PipelineStart(shp, src, ctx, opts) ==
  /\ pc = "start"
  /\ pShape = shp
  /\ pSource = src
  /\ pContext = ctx
  /\ pOptions = opts
  /\ pCompiled = [ok |-> FALSE]
  /\ pOutput = [ok |-> FALSE]
  /\ position = 1
  /\ tokens = << >>

\* const compiled = engine.compile(source)
PCompile ==
  /\ pc = "start"
  /\ pCompiled' = templateCompile(pSource, pOptions)
  /\ pc' = "compiled"
  /\ UNCHANGED <<pShape, pSource, pContext, pOptions, pOutput>>
  /\ UNCHANGED cacheVars
  /\ UNCHANGED engineVars
  /\ UNCHANGED lexerVars

\* compiled.render(context)
PRender ==
  /\ pc = "compiled"
  /\ pCompiled.ok
  /\ pOutput' = compiledRender(pCompiled.template, pContext)
  /\ pc' = "rendered"
  /\ UNCHANGED <<pShape, pSource, pContext, pOptions, pCompiled>>
  /\ UNCHANGED cacheVars
  /\ UNCHANGED engineVars
  /\ UNCHANGED lexerVars

NextPipeline ==
  \/ PCompile
  \/ PRender

\* the concatenation of a sequence of strings
RECURSIVE Concat(_)
Concat(strs) == IF Len(strs) = 0 THEN << >> ELSE Head(strs) \o Concat(Tail(strs))

\* all sequences over S of length 0..n
SeqsUpTo(S, n) == UNION {[1..k -> S] : k \in 0..n}

(***************************************************************************)
(* Specification SpecSite: templates made of one {{ name | f1 | ... }}     *)
(* site, rendered in strict and lenient mode.                              *)
(***************************************************************************)
MaxFilters == 2      \* longest filter chain of a site

\* dotted names used at the site
SiteNames ==
  {Chars("v"), Chars("m"), Chars("n"), Chars("o.k"), Chars("o.m"),
   Chars("n.k"), Chars("m.k"), Chars("o.z.k")}

\* filter names used at the site: builtin (upper, safe), registered through
\* options.filters (exclaim), never registered (nope, toString, valueOf)
SiteFilters ==
  {Chars("upper"), Chars("safe"), Chars("exclaim"), Chars("nope"),
   Chars("toString"), Chars("valueOf")}

\* the contexts a site is rendered with
SiteContexts ==
  { Obj(<< >>),
    Obj(<< <<Chars("v"), Str(Chars("a<b"))>>,
           <<Chars("n"), Null>>,
           <<Chars("o"), Obj(<< <<Chars("k"), Str(Chars("w"))>>,
                                <<Chars("z"), Null>> >>)>> >>) }

\* options.filters passed to the engine: { exclaim: (value) => value + '!!!' }
SiteCustomFilters == [n \in {Chars("exclaim")} |-> Fn(n)]

\* the text of the site
SiteSource(name, filters) ==
  Chars("{{ ") \o name
    \o Concat([i \in 1..Len(filters) |-> Chars(" | ") \o filters[i]])
    \o Chars(" }}")

InitSite ==
  /\ CacheIdle
  /\ EngineIdle
  /\ \E name \in SiteNames, filters \in SeqsUpTo(SiteFilters, MaxFilters),
        ctx \in SiteContexts, strictMode \in BOOLEAN, autoEscape \in BOOLEAN :
       PipelineStart([name |-> name, filters |-> filters],
                     SiteSource(name, filters), ctx,
                     CompilerOptions(autoEscape, strictMode, SiteCustomFilters, TRUE))

SpecSite == InitSite /\ [][NextPipeline]_vars

(***************************************************************************)
(* Specification SpecChain: templates made of one if / elif / else chain   *)
(* between two text markers, rendered with every assignment of values to   *)
(* the conditions.                                                         *)
(***************************************************************************)
MaxElifs == 2        \* largest number of elif branches in a chain

CondNames == <<Chars("a"), Chars("b"), Chars("c"), Chars("d"), Chars("e")>>
BranchTexts == <<Chars("A"), Chars("B"), Chars("C"), Chars("D"), Chars("E")>>
ElseText == Chars("Z")

\* the values the conditions take
CondValues ==
  {Bool(TRUE), Bool(FALSE), Num(0), Str(Chars("x")), Arr(<< >>), Undefined}

\* {% if a %}A{% elif b %}B ... {% else %}Z{% endif %} between [ and ]
ChainSource(nElif, hasElse) ==
  Chars("[{% if ") \o CondNames[1] \o Chars(" %}") \o BranchTexts[1]
    \o Concat([i \in 1..nElif |->
                 Chars("{% elif ") \o CondNames[i + 1] \o Chars(" %}")
                   \o BranchTexts[i + 1]])
    \o (IF hasElse THEN Chars("{% else %}") \o ElseText ELSE << >>)
    \o Chars("{% endif %}]")

\* the context giving the i-th condition the value vals[i]
ChainContext(vals) == Obj([i \in 1..Len(vals) |-> <<CondNames[i], vals[i]>>])

InitChain ==
  /\ CacheIdle
  /\ EngineIdle
  /\ \E nElif \in 0..MaxElifs, hasElse \in BOOLEAN, strictMode \in BOOLEAN :
       \E vals \in [1..(nElif + 1) -> CondValues] :
         PipelineStart([nElif |-> nElif, hasElse |-> hasElse, vals |-> vals],
                       ChainSource(nElif, hasElse), ChainContext(vals),
                       CompilerOptions(TRUE, strictMode, << >>, TRUE))

SpecChain == InitChain /\ [][NextPipeline]_vars

(***************************************************************************)
(* Specification SpecStructure: templates made of a few opening tags,      *)
(* closing tags and text, in every order.                                  *)
(***************************************************************************)
MaxSegments == 3     \* largest number of segments in a template

SegmentKinds == {"if", "endif", "for", "endfor", "block", "endblock", "else", "text"}

SegmentText(kind) ==
  CASE kind = "if" -> Chars("{% if a %}")
    [] kind = "endif" -> Chars("{% endif %}")
    [] kind = "for" -> Chars("{% for x in xs %}")
    [] kind = "endfor" -> Chars("{% endfor %}")
    [] kind = "block" -> Chars("{% block k %}")
    [] kind = "endblock" -> Chars("{% endblock %}")
    [] kind = "else" -> Chars("{% else %}")
    [] kind = "text" -> Chars("T")

StructureSource(segments) == Concat([i \in 1..Len(segments) |-> SegmentText(segments[i])])

StructureContexts ==
  { Obj(<< <<Chars("a"), Bool(b)>>, <<Chars("xs"), Arr(<<Str(Chars("p"))>>)>> >>)
      : b \in BOOLEAN }

InitStructure ==
  /\ CacheIdle
  /\ EngineIdle
  /\ \E segments \in SeqsUpTo(SegmentKinds, MaxSegments), ctx \in StructureContexts :
       PipelineStart([segments |-> segments], StructureSource(segments), ctx,
                     CompilerOptions(TRUE, FALSE, << >>, TRUE))

SpecStructure == InitStructure /\ [][NextPipeline]_vars

(***************************************************************************)
(* C7: compiling a template in which an if, for or block tag has no        *)
(* matching end tag before the end of the input fails with a parse error.  *)
(***************************************************************************)
Opener(kind) == kind \in {"if", "for", "block"}
CloserOf(kind) == CASE kind = "if" -> "endif" [] kind = "for" -> "endfor"
                    [] kind = "block" -> "endblock"

\* the opening tags still open after the segments, innermost last
RECURSIVE OpenAfter(_, _)
OpenAfter(segments, open) ==
  IF Len(segments) = 0 THEN open
  ELSE LET kind == Head(segments)
       IN  IF Opener(kind) THEN OpenAfter(Tail(segments), Append(open, kind))
           ELSE IF Len(open) > 0 /\ kind = CloserOf(open[Len(open)])
                THEN OpenAfter(Tail(segments), SubSeq(open, 1, Len(open) - 1))
           ELSE OpenAfter(Tail(segments), open)

Unterminated(segments) == Len(OpenAfter(segments, << >>)) > 0

C7_UnterminatedFails ==
  (pc \in {"compiled", "rendered"} /\ Unterminated(pShape.segments)) => ~pCompiled.ok

(***************************************************************************)
(* C8: in strict mode, rendering a {{ }} site raises an error when its     *)
(* name resolves to undefined in the context, when its path dereferences   *)
(* through a null or undefined intermediate, or when a filter of its chain *)
(* is not registered.                                                      *)
(***************************************************************************)
\* the value a dotted path names in plain data: "crossed" when the path
\* dereferences through null or undefined
RECURSIVE DataLookup(_, _)
DataLookup(value, parts) ==
  IF Len(parts) = 0 THEN [crossed |-> FALSE, v |-> value]
  ELSE IF IsNullish(value) THEN [crossed |-> TRUE, v |-> Undefined]
  ELSE IF value.t = "object" /\ HasOwn(value.v, Head(parts))
       THEN DataLookup(OwnValue(value.v, Head(parts)), Tail(parts))
  ELSE DataLookup(Undefined, Tail(parts))

SiteLookup == DataLookup(pContext, SplitOn(pShape.name, "."))

\* the names registered as filters: the builtin ones and those of options.filters
RegisteredFilters == BuiltinFilterNames \cup DOMAIN SiteCustomFilters

SiteHasUnregistered ==
  \E i \in 1..Len(pShape.filters) : pShape.filters[i] \notin RegisteredFilters

C8_StrictRaises ==
  (/\ pc = "rendered"
   /\ pOptions.strictMode
   /\ \/ SiteLookup.crossed
      \/ SiteLookup.v = Undefined
      \/ SiteHasUnregistered)
  => ~pOutput.ok

(***************************************************************************)
(* C9: in lenient mode no {{ }} site raises for missing data: a name that  *)
(* is missing, or whose path crosses null or undefined, renders as the     *)
(* empty string, and an unregistered filter in the chain leaves the        *)
(* threaded value unchanged while the remaining filters still apply.       *)
(***************************************************************************)
\* the chain without its unregistered filters
RegisteredOnly(filters) == SelectSeq(filters, LAMBDA f : f \in RegisteredFilters)

\* the rendering of a compiled site
SiteOutput(c) == IF c.ok THEN compiledRender(c.template, pContext) ELSE RenderError

\* the rendering of the site name | filters
RenderSite(name, filters) == SiteOutput(templateCompile(SiteSource(name, filters), pOptions))

SiteMissing == SiteLookup.crossed \/ IsNullish(SiteLookup.v)

C9_LenientNeverRaises ==
  (pc = "rendered" /\ ~pOptions.strictMode) =>
    /\ (SiteMissing /\ Len(pShape.filters) = 0) => pOutput = Rendered(<< >>)
    /\ (SiteMissing /\ \A i \in 1..Len(pShape.filters) :
                         pShape.filters[i] \notin DOMAIN SiteCustomFilters)
         => pOutput.ok
    /\ pOutput = RenderSite(pShape.name, RegisteredOnly(pShape.filters))

(***************************************************************************)
(* C10: an if / elif / else chain renders exactly one branch: the          *)
(* consequent when the if condition is truthy, otherwise the body of the   *)
(* first elif whose condition is truthy, otherwise the else branch when    *)
(* there is one, otherwise nothing.                                        *)
(***************************************************************************)
\* the text of the branch the chain selects for the condition values
RECURSIVE SelectedBranch(_, _, _)
SelectedBranch(vals, i, hasElse) ==
  IF i > Len(vals) THEN (IF hasElse THEN ElseText ELSE << >>)
  ELSE IF isTruthy(vals[i]) THEN BranchTexts[i]
  ELSE SelectedBranch(vals, i + 1, hasElse)

C10_OneBranch ==
  pc = "rendered" =>
    pOutput = Rendered(Chars("[") \o SelectedBranch(pShape.vals, 1, pShape.hasElse)
                         \o Chars("]"))

\* a chain with two elifs and an else rendered its second elif branch
C10_Witness ==
  /\ pc = "rendered"
  /\ pShape.nElif = 2
  /\ pShape.hasElse
  /\ ~isTruthy(pShape.vals[1])
  /\ ~isTruthy(pShape.vals[2])
  /\ isTruthy(pShape.vals[3])
  /\ pOutput = Rendered(Chars("[C]"))

(***************************************************************************)
(* Specification SpecEngine: two Template instances driven by render,      *)
(* compile, addFilter and clearCache.  The instances are built with no     *)
(* filters option, with a filters record each, or with one filters record  *)
(* passed to both constructors.                                            *)
(***************************************************************************)
MaxCalls == 3        \* number of calls made on the instances

Engines == {1, 2}

\* the reference of the filters object that belongs to one instance
OwnRef(e) == IF e = 1 THEN "own1" ELSE "own2"

\* the content of a filters record passed to a constructor:
\* { exclaim: (value) => value + '!!!' }
InitialFilters == [n \in {Chars("exclaim")} |-> Fn(n)]

\* the filter names and functions given to addFilter
AddedNames == {Chars("shout"), Chars("exclaim")}

\* the template that pipes v through the filter
FilterSource(name) == Chars("{{ v | ") \o name \o Chars(" }}")

\* the templates rendered: two filter sites, one that does not parse, and
\* the empty template
EngineSources ==
  {FilterSource(n) : n \in AddedNames} \cup {Chars("{% for x %}"), EmptyStr}

\* the context that defines v, and the contexts rendered with
FullContext == Obj(<< <<Chars("v"), Str(Chars("a<"))>> >>)
EngineContexts == {FullContext, Obj(<< >>)}

CallRecord(op, e, template, ctx, hit, result, soloResult) ==
  [op |-> op, engine |-> e, template |-> template, context |-> ctx,
   hit |-> hit, result |-> result, soloResult |-> soloResult]

InitEngine ==
  /\ CacheIdle
  /\ PipelineIdle
  /\ \E sharing \in {"none", "separate", "shared"}, strictMode \in BOOLEAN,
        cacheOn \in BOOLEAN :
       LET ref(e) == CASE sharing = "none" -> "none"
                       [] sharing = "separate" -> OwnRef(e)
                       [] sharing = "shared" -> "shared"
       IN  /\ heap = [r \in {"shared", "own1", "own2"} |->
                        IF sharing = "none" THEN << >> ELSE InitialFilters]
           /\ engines = [e \in Engines |->
                           NewTemplate(strictMode, cacheOn, ref(e), InitialFilters)]
           /\ solo = [e \in Engines |->
                        NewTemplate(strictMode, cacheOn,
                                    IF sharing = "none" THEN "none" ELSE OwnRef(e),
                                    InitialFilters)]
           /\ soloHeap = [e \in Engines |->
                            IF sharing = "none" THEN << >> ELSE InitialFilters]
  /\ added = [e \in Engines |-> << >>]
  /\ calls = 0
  /\ lastCall = CallRecord("new", 0, EmptyStr, Undefined, FALSE, NoResult, NoResult)
  /\ loading = << >>

\* the instance e, and the instance e of the run in which the other instance
\* makes no call
Worlds == {"real", "solo"}
Instance(w, e) == IF w = "real" THEN engines[e] ELSE solo[e]

\* the outcomes of a render call in both worlds
Returned(e, template, ctx, r) ==
  /\ engines' = [engines EXCEPT ![e] = r["real"].engine]
  /\ solo' = [solo EXCEPT ![e] = r["solo"].engine]
  /\ lastCall' = CallRecord("render", e, template, ctx, r["real"].hit,
                            r["real"].result, r["solo"].result)

\* engine.render(template, ctx)
Render(e, template, ctx) ==
  /\ calls < MaxCalls
  /\ Returned(e, template, ctx,
              [w \in Worlds |-> templateRender(Instance(w, e), template, ctx)])
  /\ calls' = calls + 1
  /\ UNCHANGED <<heap, soloHeap, added>>
  /\ UNCHANGED cacheVars
  /\ UNCHANGED pipelineVars
  /\ UNCHANGED loading

\* the outcomes of compile(template).render(context) in both worlds
Compiled(e, template, r) ==
  lastCall' = CallRecord("compile", e, template, FullContext, FALSE,
                         r["real"], r["solo"])

\* engine.compile(template).render(context) with the context that defines v
Compile(e, template) ==
  /\ calls < MaxCalls
  /\ Compiled(e, template,
              [w \in Worlds |->
                 compileAndRender(Instance(w, e).compiler, template, FullContext)])
  /\ calls' = calls + 1
  /\ UNCHANGED <<engines, heap, solo, soloHeap, added>>
  /\ UNCHANGED cacheVars
  /\ UNCHANGED pipelineVars
  /\ UNCHANGED loading

\* the outcome r of the call, and q of the same call on the solo instance
Registered(e, r, q) ==
  /\ engines' = [engines EXCEPT ![e] = r.engine]
  /\ heap' = [heap EXCEPT ![r.ref] = r.record]
  /\ solo' = [solo EXCEPT ![e] = q.engine]
  /\ soloHeap' = [soloHeap EXCEPT ![e] = q.record]

\* engine.addFilter(name, fn)
AddFilter(e, name, fn) ==
  /\ calls < MaxCalls
  /\ Registered(e,
                templateAddFilter(engines[e],
                                  IF engines[e].filters = "none" THEN << >>
                                  ELSE heap[engines[e].filters],
                                  OwnRef(e), name, fn),
                templateAddFilter(solo[e], soloHeap[e], OwnRef(e), name, fn))
  /\ added' = [added EXCEPT ![e] = MapSet(@, name, fn)]
  /\ lastCall' = CallRecord("addFilter", e, name, Undefined, FALSE, NoResult, NoResult)
  /\ calls' = calls + 1
  /\ UNCHANGED cacheVars
  /\ UNCHANGED pipelineVars
  /\ UNCHANGED loading

\* engine.clearCache()
ClearCache(e) ==
  /\ calls < MaxCalls
  /\ engines' = [engines EXCEPT ![e] = templateClearCache(@)]
  /\ solo' = [solo EXCEPT ![e] = templateClearCache(@)]
  /\ lastCall' = CallRecord("clearCache", e, EmptyStr, Undefined, FALSE, NoResult, NoResult)
  /\ calls' = calls + 1
  /\ UNCHANGED <<heap, soloHeap, added>>
  /\ UNCHANGED cacheVars
  /\ UNCHANGED pipelineVars
  /\ UNCHANGED loading

NextEngine ==
  \/ \E e \in Engines, t \in EngineSources, c \in EngineContexts : Render(e, t, c)
  \/ \E e \in Engines, t \in EngineSources : Compile(e, t)
  \/ \E e \in Engines, n \in AddedNames, f \in UserFunctions : AddFilter(e, n, f)
  \/ \E e \in Engines : ClearCache(e)

SpecEngine == InitEngine /\ [][NextEngine]_vars

(***************************************************************************)
(* C3: the cache is transparent.  On a Template whose filter registry has  *)
(* not changed since construction, after any earlier render, compile and   *)
(* clearCache calls, render(source, context) returns the same string, or   *)
(* fails the same way, as compile(source).render(context) and as a freshly *)
(* constructed engine with the same options.                               *)
(***************************************************************************)
\* no addFilter was called on the instance and the filters record of its
\* options is as it was passed to the constructor
RegistryUnchanged(e) ==
  /\ DOMAIN added[e] = {}
  /\ engines[e].filters # "none" => heap[engines[e].filters] = InitialFilters

\* a Template constructed now with the options the instance was built with
FreshTemplate(e) ==
  NewTemplate(engines[e].strictMode, engines[e].cacheOn, engines[e].filters,
              InitialFilters)

C3_CacheTransparent ==
  (lastCall.op = "render" /\ RegistryUnchanged(lastCall.engine)) =>
    /\ lastCall.result =
         compileAndRender(engines[lastCall.engine].compiler,
                          lastCall.template, lastCall.context)
    /\ lastCall.result =
         templateRender(FreshTemplate(lastCall.engine),
                        lastCall.template, lastCall.context).result

\* a render answered from the cache, after two earlier calls, on an instance
\* whose registry is unchanged
C3_Witness ==
  /\ lastCall.op = "render"
  /\ lastCall.hit
  /\ calls = 3
  /\ RegistryUnchanged(lastCall.engine)
  /\ lastCall.result.ok
  /\ Len(lastCall.result.out) > 0

(***************************************************************************)
(* C4: after addFilter(name, fn) on a Template, every later render on that *)
(* engine of a template using | name applies fn to the value, whatever was *)
(* rendered before, a source this engine already rendered and cached       *)
(* included.                                                               *)
(***************************************************************************)
\* what {{ v | name }} renders when the filter is the function fn
FilterApplied(fn, ctx) ==
  CallResult(renderValue(ApplyFunction(fn.v, <<OwnValue(ctx.v, Chars("v"))>>), TRUE))

C4_AddedFilterApplies ==
  \A n \in AddedNames :
    (/\ lastCall.op = "render"
     /\ lastCall.template = FilterSource(n)
     /\ n \in DOMAIN added[lastCall.engine]
     /\ HasOwn(lastCall.context.v, Chars("v")))
    => lastCall.result = FilterApplied(added[lastCall.engine][n], lastCall.context)

(***************************************************************************)
(* C5: addFilter on one Template instance never changes what another       *)
(* Template instance renders, after any sequence of addFilter and render   *)
(* calls on both, also when both were constructed from options carrying    *)
(* the same initial filters record: every render returns what it returns   *)
(* when the other instance makes no call at all.                           *)
(***************************************************************************)
C5_NoLeakAcrossInstances ==
  lastCall.op = "render" => lastCall.result = lastCall.soloResult

(***************************************************************************)
(* C6: when render(source, context) fails with a parse error, the cache of *)
(* the engine is left exactly as it was before the call: same keys, same   *)
(* recency order, nothing inserted and nothing evicted.                    *)
(***************************************************************************)
C6_ParseErrorKeepsCache ==
  [][ (calls' # calls /\ lastCall'.op = "render" /\ lastCall'.result = ParseFailure)
        => engines'[lastCall'.engine].cache = engines[lastCall'.engine].cache
    ]_vars

\* a render failed with a parse error on an engine whose cache holds entries
C6_Witness ==
  /\ lastCall.op = "render"
  /\ lastCall.result = ParseFailure
  /\ engines[lastCall.engine].cacheOn
  /\ CacheSize(engines[lastCall.engine].cache) = 2


(***************************************************************************)
(* Specification SpecTruth: {% if x %}T{% endif %} rendered with every     *)
(* value of x from a family of scalars, arrays and mappings.               *)
(***************************************************************************)
MaxElems == 2        \* largest number of elements of an array or a mapping

TruthSource == Chars("{% if x %}T{% endif %}")

\* the scalar values x and the elements take
TruthAtoms ==
  {Null, Undefined, Bool(TRUE), Bool(FALSE), Num(0), Num(1), Num(-1), NaN,
   Str(EmptyStr), Str(Chars("a")), Str(Chars("0"))}

TruthKeys == <<Chars("k"), Chars("m"), Chars("n")>>

\* the mapping whose i-th key has the value elems[i]
MappingOf(elems) == Obj([i \in 1..Len(elems) |-> <<TruthKeys[i], elems[i]>>])

TruthValues ==
  TruthAtoms
    \cup {Arr(elems) : elems \in SeqsUpTo(TruthAtoms, MaxElems)}
    \cup {MappingOf(elems) : elems \in SeqsUpTo(TruthAtoms, MaxElems)}

InitTruth ==
  /\ CacheIdle
  /\ EngineIdle
  /\ \E value \in TruthValues, strictMode \in BOOLEAN :
       PipelineStart([value |-> value], TruthSource,
                     Obj(<< <<Chars("x"), value>> >>),
                     CompilerOptions(TRUE, strictMode, << >>, TRUE))

SpecTruth == InitTruth /\ [][NextPipeline]_vars

\* the {% if x %} body was rendered / was skipped
BodyRendered == pc = "rendered" /\ pOutput = Rendered(Chars("T"))
BodySkipped == pc = "rendered" /\ pOutput = Rendered(EmptyStr)

\* C11: isTruthy(0) and isTruthy("") are true, and {% if x %} renders its
\* body for x = 0 and for x = ""
C11_ZeroAndEmptyStringTruthy ==
  pc = "rendered" /\ pShape.value \in {Num(0), Str(EmptyStr)} =>
    isTruthy(pShape.value) /\ BodyRendered

\* the values C12 lists as false: null, undefined, false, an empty array, an
\* empty mapping
ListedFalse(value) ==
  \/ value \in {Null, Undefined, Bool(FALSE)}
  \/ value.t \in {"array", "object"} /\ Len(value.v) = 0

\* typeof value === 'number'
IsNumber(value) == value.t \in {"number", "nan", "decimal", "inexact"}

\* the values C12 lists as true: true, non-zero numbers, non-empty strings,
\* non-empty arrays, non-empty mappings
ListedTrue(value) ==
  \/ value = Bool(TRUE)
  \/ IsNumber(value) /\ value # Num(0)
  \/ value.t \in {"string", "array", "object"} /\ Len(value.v) > 0

\* C12: isTruthy is false for every value listed as false and true for every
\* value listed as true, and {% if x %} follows it
C12_TruthTable ==
  pc = "rendered" =>
    /\ ListedFalse(pShape.value) => ~isTruthy(pShape.value) /\ BodySkipped
    /\ ListedTrue(pShape.value) => isTruthy(pShape.value) /\ BodyRendered


(***************************************************************************)
(* Specification SpecEscape: one {{ v | f1 | ... }} site whose value is a  *)
(* string over the characters HTML escaping replaces, with and without a   *)
(* SafeString wrapper, rendered with auto-escape on and off.               *)
(***************************************************************************)
MaxLen == 2          \* longest string value

\* the characters of the values: the six HTML_ENTITY_REGEX matches and a letter
EscapeAlphabet == {"&", "<", ">", "\"", "'", "/", "a"}

EscapeStrings == SeqsUpTo(EscapeAlphabet, MaxLen)

\* values of v: strings and strings marked safe by the caller
EscapeValues ==
  {Str(str) : str \in EscapeStrings} \cup {SafeString(str) : str \in EscapeStrings}

\* filters of the site: the result of upper and escape is a plain string,
\* the result of safe is marked safe
EscapeFilters == {Chars("upper"), Chars("escape"), Chars("safe")}

InitEscape ==
  /\ CacheIdle
  /\ EngineIdle
  /\ \E value \in EscapeValues, filters \in SeqsUpTo(EscapeFilters, MaxFilters),
        autoEscape \in BOOLEAN :
       PipelineStart([value |-> value, filters |-> filters],
                     SiteSource(Chars("v"), filters),
                     Obj(<< <<Chars("v"), value>> >>),
                     CompilerOptions(autoEscape, FALSE, << >>, TRUE))

SpecEscape == InitEscape /\ [][NextPipeline]_vars

\* the characters that must not reach the output raw
RawSpecials == {"<", ">", "\"", "'", "/"}

\* the entities of the six characters
Entities ==
  {<<"&", Chars("&amp;")>>, <<"<", Chars("&lt;")>>, <<">", Chars("&gt;")>>,
   <<"\"", Chars("&quot;")>>, <<"'", Chars("&#x27;")>>, <<"/", Chars("&#x2F;")>>}

\* out has no raw special character and every & of it starts an entity
WellEscaped(out) ==
  \A i \in 1..Len(out) :
    /\ out[i] \notin RawSpecials
    /\ out[i] = "&" => \E e \in Entities : peek(out, i, e[2])

\* out with every entity replaced by its character, once, left to right
RECURSIVE DecodeEntities(_)
DecodeEntities(out) ==
  IF Len(out) = 0 THEN << >>
  ELSE IF \E e \in Entities : StartsWith(out, e[2])
       THEN <<(CHOOSE e \in Entities : StartsWith(out, e[2]))[1]>>
              \o DecodeEntities(DropTo(out,
                   Len((CHOOSE e \in Entities : StartsWith(out, e[2]))[2]) + 1))
  ELSE <<Head(out)>> \o DecodeEntities(Tail(out))

\* out is the HTML escaping, applied once, of str
EscapedOnce(out, str) == WellEscaped(out) /\ DecodeEntities(out) = str

\* the value the filter chain of the site leaves
SiteFinalValue ==
  applyFilters(pContext.v[1][2],
               [i \in 1..Len(pShape.filters) |-> [name |-> pShape.filters[i], args |-> << >>]],
               pOptions)

\* out is what C13 lets a site emit for the final value
EmittedFor(final, autoEscape, out) ==
  IF final.t = "safe" THEN out = final.v
  ELSE IF autoEscape THEN EscapedOnce(out, ToStr(final))
  ELSE out = ToStr(final)

EnsureSafeValues ==
  EscapeValues
    \cup {Null, Undefined, Bool(FALSE), Num(0), Num(7), NaN,
          Arr(<< >>), Arr(<<Str(Chars("<")), Null, Str(Chars("a&"))>>),
          Obj(<< >>)}

InitEnsureSafe ==
  /\ CacheIdle
  /\ EngineIdle
  /\ \E value \in EnsureSafeValues, autoEscape \in BOOLEAN :
       PipelineStart([value |-> value, autoEscape |-> autoEscape],
                     EmptyStr, Obj(<< >>),
                     CompilerOptions(autoEscape, FALSE, << >>, TRUE))

\* ensureSafe(value, autoEscape)
PEnsureSafe ==
  /\ pc = "start"
  /\ pOutput' = Rendered(ensureSafe(pShape.value, pShape.autoEscape))
  /\ pc' = "rendered"
  /\ UNCHANGED <<pShape, pSource, pContext, pOptions, pCompiled>>
  /\ UNCHANGED cacheVars
  /\ UNCHANGED engineVars
  /\ UNCHANGED lexerVars

NextEnsureSafe == PEnsureSafe

SpecEnsureSafe == InitEnsureSafe /\ [][NextEnsureSafe]_vars

\* out is what C14 lets ensureSafe return
EnsuredFor(value, autoEscape, out) ==
  IF value.t = "safe" THEN out = value.v
  ELSE IF value \in {Null, Undefined} THEN out = EmptyStr
  ELSE IF autoEscape THEN EscapedOnce(out, ToStr(value))
  ELSE out = ToStr(value)

\* C14: ensureSafe returns the inner text of a SafeString unchanged for both
\* settings of autoEscape, the empty string for null and undefined, and
\* otherwise the stringified value, HTML-escaped if and only if autoEscape
C14_EnsureSafe ==
  pc = "rendered" => EnsuredFor(pShape.value, pShape.autoEscape, pOutput.out)

\* ensureSafe returned the text of a safe string holding < unchanged although
\* autoEscape is on
C14_Witness ==
  /\ pc = "rendered"
  /\ pShape.autoEscape
  /\ pShape.value = SafeString(Chars("<a"))
  /\ pOutput = Rendered(Chars("<a"))


(***************************************************************************)
(* Specification SpecArgs: one {{ v | filter(arg, ...) }} site whose       *)
(* arguments are quoted strings and numbers.                               *)
(***************************************************************************)
MaxArgs == 2         \* largest number of arguments of the filter

\* argument tokens as written in the template, with the value each denotes
ArgTokens ==
  {[text |-> Chars("\"-\""), value |-> Str(Chars("-"))],
   [text |-> Chars("'o'"), value |-> Str(Chars("o"))],
   [text |-> Chars("\"world\""), value |-> Str(Chars("world"))],
   [text |-> Chars("\"universe\""), value |-> Str(Chars("universe"))],
   [text |-> Chars("7"), value |-> Num(7)]}

ArgFilters == {Chars("join"), Chars("replace"), Chars("default")}

ArgValues ==
  {Arr(<<Str(Chars("a")), Str(Chars("b")), Str(Chars("c"))>>),
   Str(Chars("hello world")), Str(EmptyStr)}

\* {{ v | filter(arg1, arg2) }}
ArgSource(filter, args) ==
  Chars("{{ v | ") \o filter \o Chars("(")
    \o JoinStrings([i \in 1..Len(args) |-> args[i].text], Chars(", "))
    \o Chars(") }}")

InitArgs ==
  /\ CacheIdle
  /\ EngineIdle
  /\ \E filter \in ArgFilters, args \in SeqsUpTo(ArgTokens, MaxArgs),
        value \in ArgValues, autoEscape \in BOOLEAN :
       PipelineStart([filter |-> filter, args |-> args, value |-> value],
                     ArgSource(filter, args),
                     Obj(<< <<Chars("v"), value>> >>),
                     CompilerOptions(autoEscape, FALSE, << >>, TRUE))

SpecArgs == InitArgs /\ [][NextPipeline]_vars

\* the values the written arguments denote
DenotedArgs == [i \in 1..Len(pShape.args) |-> pShape.args[i].value]

\* the arguments the compiled site passes to its filter
PassedArgs == filterArgs(pCompiled.template.ast[1].filters[1].args)

\* the text of the site when the filter is called with the denoted arguments
DenotedOutput ==
  Rendered(ensureSafe(ApplyFunction(pShape.filter, <<pShape.value>> \o DenotedArgs).v,
                      pOptions.autoEscape))

\* C15: a quoted-string argument reaches the filter as the string's content
\* without the quotes and a numeric argument as that number, so join("-")
\* on a, b, c yields a-b-c and replace("world", "universe") replaces world
C15_ArgumentsUnquoted ==
  pc = "rendered" =>
    /\ PassedArgs = DenotedArgs
    /\ pOutput = DenotedOutput


(***************************************************************************)
(* Expressions on their own: the text of an expression is tokenized and    *)
(* parsed (new ExpressionParser(new ExpressionLexer(text).tokenize())      *)
(* .parseExpression(), as Parser.parseIf does), and the tree is evaluated  *)
(* by Runtime.evaluateExpression in a context.                             *)
(***************************************************************************)
\* exprParser.parseExpression()
PParseExpression ==
  /\ pc = "start"
  /\ pCompiled' = parseExpressionText(pSource)
  /\ pc' = "parsed"
  /\ UNCHANGED <<pShape, pSource, pContext, pOptions, pOutput>>
  /\ UNCHANGED cacheVars
  /\ UNCHANGED engineVars
  /\ UNCHANGED lexerVars

\* Runtime.evaluateExpression(expr, context)
PEvaluate ==
  /\ pc = "parsed"
  /\ pCompiled.ok
  /\ pOutput' = evaluateExpression(pCompiled.e, pContext)
  /\ pc' = "evaluated"
  /\ UNCHANGED <<pShape, pSource, pContext, pOptions, pCompiled>>
  /\ UNCHANGED cacheVars
  /\ UNCHANGED engineVars
  /\ UNCHANGED lexerVars

NextExpression ==
  \/ PParseExpression
  \/ PEvaluate

(***************************************************************************)
(* Specification SpecLogic: `left and right` and `left or right` whose     *)
(* operands are variables and calls of a value that is not a function.     *)
(***************************************************************************)
\* values of the variables a and b: truthy or falsy under every reading
LogicValues == {Bool(TRUE), Bool(FALSE), Num(1), Str(Chars("x")), Null, Undefined}

\* the operands: f is not a function, so evaluating f() raises
LeftOperands == {Chars("a"), Chars("f()")}
RightOperands == {Chars("b"), Chars("f()")}

LogicOperators == {Chars("and"), Chars("or")}

LogicContext(a, b) ==
  Obj(<< <<Chars("a"), a>>, <<Chars("b"), b>>, <<Chars("f"), Num(1)>> >>)

InitLogic ==
  /\ CacheIdle
  /\ EngineIdle
  /\ \E operator \in LogicOperators, left \in LeftOperands, right \in RightOperands,
        a \in LogicValues, b \in LogicValues :
       PipelineStart([operator |-> operator, left |-> left, right |-> right],
                     left \o Chars(" ") \o operator \o Chars(" ") \o right,
                     LogicContext(a, b),
                     CompilerOptions(TRUE, FALSE, << >>, TRUE))

SpecLogic == InitLogic /\ [][NextExpression]_vars

\* the outcome of evaluating an operand on its own
OperandOutcome(text) == evaluateExpression(parseExpressionText(text).e, pContext)

\* the outcome of a short-circuiting `left operator right`, l and r being the
\* outcomes of the operands: r is only looked at when l does not decide
ShortCircuit(operator, l, r) ==
  IF ~l.ok THEN Throws
  ELSE IF operator = Chars("and") /\ ~JsTruthy(l.v) THEN l
  ELSE IF operator = Chars("or") /\ JsTruthy(l.v) THEN l
  ELSE r

\* C16: `a and b` does not evaluate b when a is falsy and `a or b` does not
\* evaluate b when a is truthy, so an error of b does not surface then; the
\* result is one of the two operand values
C16_ShortCircuit ==
  pc = "evaluated" =>
    pOutput = ShortCircuit(pShape.operator, OperandOutcome(pShape.left),
                           OperandOutcome(pShape.right))


(***************************************************************************)
(* Specification SpecLoop: a for loop over a sequence whose body prints    *)
(* the element and every field of the loop object.                         *)
(***************************************************************************)
MaxItems == 3        \* longest sequence iterated over

\* {% for x in xs %}[x:index:index1:first:last:length]{% endfor %}
LoopSource ==
  Chars("{% for x in xs %}[{{ x }}:{{ loop.index }}:{{ loop.index1 }}:")
    \o Chars("{{ loop.first }}:{{ loop.last }}:{{ loop.length }}]{% endfor %}")

LoopElements == {Chars("a"), Chars("b"), Chars("c")}

InitLoop ==
  /\ CacheIdle
  /\ EngineIdle
  /\ \E items \in SeqsUpTo(LoopElements, MaxItems), strictMode \in BOOLEAN :
       PipelineStart([items |-> items], LoopSource,
                     Obj(<< <<Chars("xs"),
                              Arr([i \in 1..Len(items) |-> Str(items[i])])>> >>),
                     CompilerOptions(TRUE, strictMode, << >>, TRUE))

SpecLoop == InitLoop /\ [][NextPipeline]_vars

BoolText(b) == IF b THEN Chars("true") ELSE Chars("false")

\* what the body prints in iteration i (0-based) of n for the element
IterationText(element, i, n) ==
  Chars("[") \o element \o Chars(":") \o NatToDigits(i) \o Chars(":")
    \o NatToDigits(i + 1) \o Chars(":") \o BoolText(i = 0) \o Chars(":")
    \o BoolText(i = n - 1) \o Chars(":") \o NatToDigits(n) \o Chars("]")

\* C17: a for loop over n elements renders its body n times in element
\* order, iteration i seeing loop.index = i, loop.index1 = i + 1, loop.first
\* iff i = 0, loop.last iff i = n - 1 and loop.length = n; nothing for n = 0
C17_LoopMetadata ==
  pc = "rendered" =>
    pOutput = Rendered(Concat([k \in 1..Len(pShape.items) |->
                                 IterationText(pShape.items[k], k - 1,
                                               Len(pShape.items))]))

\* the loop over c, a, b was rendered: three iterations in element order
C17_Witness ==
  /\ pc = "rendered"
  /\ pShape.items = <<Chars("c"), Chars("a"), Chars("b")>>
  /\ pOutput = Rendered(Chars("[c:0:1:true:false:3][a:1:2:false:false:3]")
                          \o Chars("[b:2:3:false:true:3]"))


(***************************************************************************)
(* Specification SpecLexer: new Lexer(input, delimiters).tokenize() run    *)
(* one nextToken() call at a time, for every short input and every pair of *)
(* variable delimiters from a family that includes the empty string.       *)
(***************************************************************************)
MaxInput == 3        \* longest input text
MaxTokens == 5       \* tokens after which the loop of tokenize is cut off

LexerAlphabet == {"{", "}", "%", "a", " "}

\* the strings configured as delimiters.start and delimiters.end
LexerDelimiters == {EmptyStr, Chars("{"), Chars("{{"), Chars("}}"), Chars("a")}

InitLexer ==
  /\ CacheIdle
  /\ EngineIdle
  /\ \E input \in SeqsUpTo(LexerAlphabet, MaxInput),
        start \in LexerDelimiters, end \in LexerDelimiters :
       /\ pShape = [start |-> start, end |-> end]
       /\ pSource = input
  /\ pc = "lexing"
  /\ pContext = Undefined
  /\ pOptions = << >>
  /\ pCompiled = [ok |-> FALSE]
  /\ pOutput = [ok |-> FALSE]
  /\ position = 1
  /\ tokens = << >>

\* the token and position after this.nextToken()
LexNext == nextToken(pSource, position, pShape)

\* one iteration of the while loop of Lexer.tokenize: nextToken(), push, and
\* break on EOF
LexStep ==
  /\ pc = "lexing"
  /\ Len(tokens) < MaxTokens
  /\ tokens' = Append(tokens, LexNext.token)
  /\ position' = LexNext.pos
  /\ pc' = IF LexNext.token.type = "EOF" THEN "done" ELSE "lexing"
  /\ UNCHANGED <<pShape, pSource, pContext, pOptions, pCompiled, pOutput>>
  /\ UNCHANGED cacheVars
  /\ UNCHANGED engineVars

NextLexer == LexStep

SpecLexer == InitLexer /\ [][NextLexer]_vars

\* the token list ends with an EOF token and holds no other
OneEofAtEnd ==
  /\ Len(tokens) > 0
  /\ \A i \in 1..Len(tokens) : tokens[i].type = "EOF" <=> i = Len(tokens)

\* C18: for every source text and every delimiter pair, the empty string
\* included, tokenize terminates: every step that does not return EOF
\* strictly advances the position, and the finished token list ends with
\* exactly one EOF token
C18_TokenizeTerminates ==
  /\ [][pc' = "lexing" => position' > position]_vars
  /\ [](pc = "done" => OneEofAtEnd)


(***************************************************************************)
(* Specification SpecAsync: one AsyncTemplate (async-template.ts) on which *)
(* render and preload calls are issued concurrently.  An async function    *)
(* runs without interruption between two awaits: render has no await, and  *)
(* the callback of preload has one, on this.loadTemplate(filename).        *)
(* engines[1] is the instance, with the field templateDirs added; calls    *)
(* counts the distinct templates rendered so far.                          *)
(***************************************************************************)
TemplateLen == 7     \* length of the template texts rendered
MaxLoads == 1        \* files requested through preload in one behaviour

\* distinct templates rendered in one behaviour: enough to fill the cache
\* of the instance and to evict from it
MaxRenders == DefaultMaxSize + 1

\* the k-th template text, k written in binary with the letters a and b
NthTemplate(k) ==
  [i \in 1..TemplateLen |->
     IF (k \div (2 ^ (TemplateLen - i))) % 2 = 1 THEN "b" ELSE "a"]

\* the regular files of the file system, by path: t and g in the current
\* directory, g holding a template that does not parse, and f in the
\* directory d
FileSystem ==
  [path \in {Chars("t"), Chars("g"), Chars("d/f")} |->
     IF path = Chars("t") THEN Chars("T")
     ELSE IF path = Chars("g") THEN Chars("{%for%}")
     ELSE Chars("F")]

\* the arrays passed to setTemplateDirs: a directory, or the path of a
\* regular file
TemplateDirs == {<<Chars("d")>>, <<Chars("t")>>}

FileNames == {EmptyStr, Chars("f"), Chars("t"), Chars("g")}

\* path.isAbsolute
isAbsolute(path) == Len(path) > 0 /\ path[1] = "/"

\* path.join(dir, filename) for segments without . and .. parts: zero-length
\* segments are ignored
pathJoin(dir, filename) ==
  IF dir = EmptyStr /\ filename = EmptyStr THEN Chars(".")
  ELSE IF filename = EmptyStr THEN dir
  ELSE IF dir = EmptyStr THEN filename
  ELSE dir \o Chars("/") \o filename

\* fs.readFile(path, 'utf-8'): [ok, content]; a path that names no regular
\* file is rejected
readFile(path) ==
  IF path \in DOMAIN FileSystem THEN [ok |-> TRUE, content |-> FileSystem[path]]
  ELSE [ok |-> FALSE]

\* the loop of loadTemplate over the template directories, from the i-th on,
\* followed by the attempt in the current directory
RECURSIVE loadFromDirs(_, _, _)
loadFromDirs(dirs, i, filename) ==
  IF i > Len(dirs) THEN readFile(filename)
  ELSE IF readFile(pathJoin(dirs[i], filename)).ok
       THEN readFile(pathJoin(dirs[i], filename))
       ELSE loadFromDirs(dirs, i + 1, filename)

\* AsyncTemplate.loadTemplate: [ok, content], not ok being the rejection with
\* 'Template not found'
loadTemplate(dirs, filename) ==
  IF isAbsolute(filename) /\ readFile(filename).ok THEN readFile(filename)
  ELSE loadFromDirs(dirs, 1, filename)

\* new AsyncTemplate({ cache: cacheOn })
NewAsyncTemplate(cacheOn) ==
  [autoEscape |-> TRUE, strictMode |-> FALSE, cacheOn |-> cacheOn,
   filters |-> "none",
   compiler |-> CompilerOptions(TRUE, FALSE, << >>, TRUE),
   cache |-> NewTemplateCache(DefaultMaxSize),
   templateDirs |-> << >>]

\* AsyncTemplate.render: the statements of Template.render, none of them
\* awaited
asyncRender(engine, template, context) == templateRender(engine, template, context)

\* the callback of preload after its await, ast being the outcome of
\* parser.parse() on the loaded text: compile and this.cache.set(filename, ..)
preloadStore(engine, filename, ast) ==
  IF ast.ok
  THEN [engine EXCEPT !.cache = CacheSet(@, filename, compile(ast.nodes, engine.compiler))]
  ELSE engine

InitAsync ==
  /\ CacheIdle
  /\ PipelineIdle
  /\ \E cacheOn \in BOOLEAN : engines = <<NewAsyncTemplate(cacheOn)>>
  /\ heap = << >>
  /\ solo = << >>
  /\ soloHeap = << >>
  /\ added = << >>
  /\ calls = 0
  /\ lastCall = [op |-> "new"]
  /\ loading = << >>

\* engine.setTemplateDirs(dirs), called once at most
SetTemplateDirs ==
  /\ engines[1].templateDirs = << >>
  /\ \E dirs \in TemplateDirs :
       engines' = [engines EXCEPT ![1].templateDirs = dirs]
  /\ UNCHANGED <<heap, solo, soloHeap, added, calls, lastCall, loading>>
  /\ UNCHANGED cacheVars
  /\ UNCHANGED pipelineVars

\* engine.render(template, {}) up to the resolution of its promise; the
\* template is the next one not rendered yet, the latest rendered, or ''
AsyncRender ==
  /\ \E template \in {NthTemplate(k) : k \in {calls, calls + 1} \cap 1..MaxRenders}
                       \cup {EmptyStr} :
       /\ engines' = [engines EXCEPT
                        ![1] = asyncRender(@, template, Obj(<< >>)).engine]
       /\ calls' = IF template = NthTemplate(calls + 1) THEN calls + 1 ELSE calls
  /\ UNCHANGED <<heap, solo, soloHeap, added, lastCall, loading>>
  /\ UNCHANGED cacheVars
  /\ UNCHANGED pipelineVars

\* engine.preload(filenames) up to the first await of each callback:
\* loadTemplate reads this.templateDirs and starts reading the file
Preload ==
  /\ \E filenames \in SeqsUpTo(FileNames, MaxLoads - Len(loading)) :
       /\ filenames # << >>
       /\ loading' = loading \o
            [i \in 1..Len(filenames) |->
               [filename |-> filenames[i], dirs |-> engines[1].templateDirs,
                state |-> "pending"]]
  /\ UNCHANGED <<engines, heap, solo, soloHeap, added, calls, lastCall>>
  /\ UNCHANGED cacheVars
  /\ UNCHANGED pipelineVars

\* the callback of preload resumed with the file read: parse, compile and
\* cache.set in one run
LoadResolved(i, file) ==
  /\ engines' = [engines EXCEPT
                   ![1] = preloadStore(@, loading[i].filename,
                                       parseTemplate(file.content, DefaultDelimiters))]
  /\ loading' = [loading EXCEPT
                   ![i].state = IF parseTemplate(file.content, DefaultDelimiters).ok
                                THEN "loaded" ELSE "rejected"]

\* the await of loadTemplate settles for one pending file
Loaded ==
  /\ \E i \in 1..Len(loading) :
       /\ loading[i].state = "pending"
       /\ IF loadTemplate(loading[i].dirs, loading[i].filename).ok
          THEN LoadResolved(i, loadTemplate(loading[i].dirs, loading[i].filename))
          ELSE /\ loading' = [loading EXCEPT ![i].state = "failed"]
               /\ UNCHANGED engines
  /\ UNCHANGED <<heap, solo, soloHeap, added, calls, lastCall>>
  /\ UNCHANGED cacheVars
  /\ UNCHANGED pipelineVars

NextAsync ==
  \/ SetTemplateDirs
  \/ AsyncRender
  \/ Preload
  \/ Loaded

SpecAsync == InitAsync /\ [][NextAsync]_vars

\* the recency order lists exactly the cached keys, each once
OrderListsCachedKeys(c) ==
  /\ {c.accessOrder[i] : i \in 1..Len(c.accessOrder)} = DOMAIN c.cache
  /\ Len(c.accessOrder) = CacheSize(c)

\* C19: under any interleaving of concurrently issued render and preload
\* calls on one AsyncTemplate, in every reachable state the recency order
\* lists exactly the cached keys, each once, and the cache size stays within
\* its capacity
C19_CacheNeverTorn ==
  /\ OrderListsCachedKeys(engines[1].cache)
  /\ CacheSize(engines[1].cache) <= engines[1].cache.maxSize


(***************************************************************************)
(* Specification SpecPrecedence: expressions `x op y op z ...` over the    *)
(* binary operators, one operand at most carrying a unary operator, are    *)
(* parsed (and evaluated on numbers).                                      *)
(***************************************************************************)
MaxOperators == 2    \* binary operators in one expression

\* the binding levels, lowest first
PrecedenceLevels ==
  << {Chars("or")}, {Chars("and")}, {Chars("=="), Chars("!=")},
     {Chars("<"), Chars("<="), Chars(">"), Chars(">=")},
     {Chars("+"), Chars("-")}, {Chars("*"), Chars("/"), Chars("%")} >>

LevelOf(operator) ==
  CHOOSE l \in 1..Len(PrecedenceLevels) : operator \in PrecedenceLevels[l]

AllBinaryOperators == UNION {PrecedenceLevels[l] : l \in 1..Len(PrecedenceLevels)}

UnaryOperators == {Chars("not"), Chars("-"), Chars("!")}

\* the i-th operand is the variable a, b, c, ...
OperandName(i) == <<SubSeq(Chars("abcdefgh"), i, i)[1]>>

\* the text of the i-th operand, the unary operator in front of it when it
\* is the operand chosen by the shape
OperandText(shape, i) ==
  IF shape.unaryAt = i
  THEN shape.unary \o (IF shape.unary = Chars("not") THEN Chars(" ") ELSE << >>)
         \o OperandName(i)
  ELSE OperandName(i)

\* the tree of the i-th operand
OperandTree(shape, i) ==
  IF shape.unaryAt = i THEN Unary(shape.unary, Variable(OperandName(i)))
  ELSE Variable(OperandName(i))

\* operand, then ` operator operand` for every operator
RECURSIVE ExpressionText(_, _)
ExpressionText(shape, n) ==
  IF n = 0 THEN OperandText(shape, 1)
  ELSE ExpressionText(shape, n - 1) \o Chars(" ") \o shape.operators[n]
         \o Chars(" ") \o OperandText(shape, n + 1)

PrecedenceContext ==
  Obj([i \in 1..(MaxOperators + 1) |-> <<OperandName(i), Num(i)>>])

InitPrecedence ==
  /\ CacheIdle
  /\ EngineIdle
  /\ \E operators \in SeqsUpTo(AllBinaryOperators, MaxOperators),
        unary \in UnaryOperators :
       \E unaryAt \in 0..(Len(operators) + 1) :
         /\ unaryAt = 0 => unary = Chars("not")
         /\ PipelineStart([operators |-> operators, unaryAt |-> unaryAt, unary |-> unary],
                          ExpressionText([operators |-> operators, unaryAt |-> unaryAt,
                                          unary |-> unary], Len(operators)),
                          PrecedenceContext,
                          CompilerOptions(TRUE, FALSE, << >>, TRUE))

SpecPrecedence == InitPrecedence /\ [][NextExpression]_vars

\* the tree of operands from..to of the shape: the root is the last operator
\* of the lowest level among them, its subtrees the trees of the two sides
RECURSIVE TreeOf(_, _, _)
TreeOf(shape, from, to) ==
  IF from = to THEN OperandTree(shape, from)
  ELSE LET low == CHOOSE l \in 1..Len(PrecedenceLevels) :
                    /\ \E k \in from..(to - 1) : LevelOf(shape.operators[k]) = l
                    /\ \A k \in from..(to - 1) : LevelOf(shape.operators[k]) >= l
           root == CHOOSE k \in from..(to - 1) :
                     /\ LevelOf(shape.operators[k]) = low
                     /\ \A j \in (k + 1)..(to - 1) : LevelOf(shape.operators[j]) # low
       IN  Binary(shape.operators[root], TreeOf(shape, from, root),
                  TreeOf(shape, root + 1, to))

\* C20: the expression parser builds trees by precedence, lowest to highest
\* or, and, == !=, < <= > >=, + -, * / %, unary: a higher-level operator ends
\* up deeper than an adjacent lower-level one, and operators of one level
\* associate to the left
C20_PrecedenceAndAssociativity ==
  pc \in {"parsed", "evaluated"} =>
    /\ pCompiled.ok
    /\ pCompiled.e = TreeOf(pShape, 1, Len(pShape.operators) + 1)

\* `a or b and c` has been parsed as or(a, and(b, c))
C20_Witness ==
  /\ pc = "parsed"
  /\ pSource = Chars("a or b and c")
  /\ pCompiled.ok
  /\ pCompiled.e = Binary(Chars("or"), Variable(Chars("a")),
                          Binary(Chars("and"), Variable(Chars("b")),
                                 Variable(Chars("c"))))


(***************************************************************************)
(* Specification SpecCall: a call of a value that is not a function, as    *)
(* the expression of an if, an elif or a for tag.                          *)
(***************************************************************************)
CallPlaces == {"if", "elif", "for"}

\* the call expressions: f and o.m are not functions
CallTexts == {Chars("f()"), Chars("o.m()"), Chars("f(a)")}

\* the values called; undefined stands for a name that is not bound
NonFunctions ==
  {Undefined, Null, Num(0), Num(1), Str(EmptyStr), Str(Chars("x")), Bool(TRUE),
   Bool(FALSE), Arr(<< >>), Obj(<< >>)}

CallSource(place, call) ==
  CASE place = "if" -> Chars("{% if ") \o call \o Chars(" %}A{% else %}C{% endif %}")
    [] place = "elif" ->
         Chars("{% if a %}A{% elif ") \o call \o Chars(" %}B{% else %}C{% endif %}")
    [] place = "for" -> Chars("{% for x in ") \o call \o Chars(" %}A{% endfor %}")

\* a is the first condition of the elif template, f and o.m hold the value
CallContext(a, f) ==
  IF f = Undefined
  THEN Obj(<< <<Chars("a"), a>>, <<Chars("o"), Obj(<< >>)>> >>)
  ELSE Obj(<< <<Chars("a"), a>>, <<Chars("f"), f>>,
              <<Chars("o"), Obj(<< <<Chars("m"), f>> >>)>> >>)

InitCall ==
  /\ CacheIdle
  /\ EngineIdle
  /\ \E place \in CallPlaces, call \in CallTexts, f \in NonFunctions,
        a \in BOOLEAN, strictMode \in BOOLEAN :
       PipelineStart([place |-> place, call |-> call, f |-> f, a |-> a,
                      strictMode |-> strictMode],
                     CallSource(place, call), CallContext(Bool(a), f),
                     CompilerOptions(TRUE, strictMode, << >>, TRUE))

SpecCall == InitCall /\ [][NextPipeline]_vars

\* the render reaches the call: an elif is only looked at when the condition
\* of its if is not truthy
CallEvaluated == pShape.place = "elif" => ~pShape.a

\* C21: a render that evaluates a call of a non-function value in an if, elif
\* or for expression fails, in strict and in lenient mode alike, and is never
\* degraded to an output
C21_CallOfNonFunctionFatal ==
  pc = "rendered" /\ CallEvaluated => ~pOutput.ok

\* a lenient render has failed on the call in an elif
C21_Witness ==
  /\ pc = "rendered"
  /\ pShape.place = "elif"
  /\ ~pShape.a
  /\ ~pShape.strictMode
  /\ pShape.f = Str(Chars("x"))
  /\ ~pOutput.ok


(***************************************************************************)
(* Specification SpecIterable: Runtime.getIterable applied to arrays,      *)
(* mappings, numbers and values of the other types.                        *)
(***************************************************************************)
MaxRange == 3        \* largest number iterated over

IterableElements == {Num(1), Str(Chars("a")), Null, Arr(<< >>)}

IterableKeys == {Chars("a"), Chars("b")}

\* the plain objects of up to two properties, in both insertion orders
IterableMappings ==
  {Obj(<< >>)}
    \cup {Obj(<< <<k, v>> >>) : k \in IterableKeys, v \in IterableElements}
    \cup {Obj(<< <<k1, v>>, <<k2, Num(1)>> >>) :
            k1 \in IterableKeys, k2 \in IterableKeys, v \in IterableElements}

IterableValues ==
  {Arr(items) : items \in SeqsUpTo(IterableElements, MaxElems)}
    \cup IterableMappings
    \cup {Num(n) : n \in (0 - MaxRange)..MaxRange}
    \cup {Decimal(Chars("0.5")), Decimal(Chars("1.5")), Decimal(Chars("2.5")), NaN}
    \cup {Null, Undefined, Bool(TRUE), Bool(FALSE), Str(EmptyStr), Str(Chars("ab")),
          Str(Chars("3")), Fn(Chars("upper")), SafeString(Chars("ab"))}

InitIterable ==
  /\ CacheIdle
  /\ EngineIdle
  /\ \E value \in IterableValues :
       PipelineStart([value |-> value], EmptyStr, Obj(<< >>),
                     CompilerOptions(TRUE, FALSE, << >>, TRUE))

\* Runtime.getIterable(value)
PGetIterable ==
  /\ pc = "start"
  /\ pOutput' = Value(Arr(getIterable(pShape.value)))
  /\ pc' = "evaluated"
  /\ UNCHANGED <<pShape, pSource, pContext, pOptions, pCompiled>>
  /\ UNCHANGED cacheVars
  /\ UNCHANGED engineVars
  /\ UNCHANGED lexerVars

NextIterable == PGetIterable

SpecIterable == InitIterable /\ [][NextIterable]_vars

\* the [key, value] pairs of a mapping, in insertion order
PairsOf(mapping) ==
  [i \in 1..Len(mapping.v) |-> Arr(<<Str(mapping.v[i][1]), mapping.v[i][2]>>)]

\* the sequence C22 gives for a value
IterableFor(value) ==
  IF value.t = "array" THEN value.v
  ELSE IF value.t = "object" THEN PairsOf(value)
  ELSE IF value.t = "number" /\ value.v >= 0 THEN [i \in 1..value.v |-> Num(i - 1)]
  ELSE << >>

\* C22: getIterable returns an array unchanged, the [key, value] pairs of a
\* mapping in insertion order, 0, 1, ..., n-1 for a non-negative integer n,
\* and the empty sequence for every other value
C22_GetIterable ==
  pc = "evaluated" => pOutput.v.v = IterableFor(pShape.value)


(***************************************************************************)
(* Specification SpecDefault: the default filter, with and without an      *)
(* argument, on a variable that is unbound, undefined, null, empty or set.  *)
(***************************************************************************)
DefaultSources ==
  {Chars("{{ missing | default }}"), Chars("{{ missing|default }}"),
   Chars("{{ missing | default(x) }}")}

\* the values of the variable; "unbound" leaves the context empty
DefaultValues ==
  {Undefined, Null, Str(EmptyStr), Str(Chars("a")), Num(0), Bool(FALSE), Arr(<< >>)}

DefaultContexts ==
  {Obj(<< >>)} \cup {Obj(<< <<Chars("missing"), v>> >>) : v \in DefaultValues}

InitDefault ==
  /\ CacheIdle
  /\ EngineIdle
  /\ \E source \in DefaultSources, ctx \in DefaultContexts,
        autoEscape \in BOOLEAN, strictMode \in BOOLEAN :
       PipelineStart([source |-> source, autoEscape |-> autoEscape,
                      strictMode |-> strictMode],
                     source, ctx,
                     CompilerOptions(autoEscape, strictMode, << >>, TRUE))

SpecDefault == InitDefault /\ [][NextPipeline]_vars

\* the variable named missing has the value undefined
MissingUndefined ==
  pContext \in {Obj(<< >>), Obj(<< <<Chars("missing"), Undefined>> >>)}

\* C23: rendering {{ missing | default }}, the default filter without an
\* argument, in lenient mode with auto-escape on yields the text undefined
\* when the value of the variable is undefined
C23_DefaultWithoutArgument ==
  pc = "rendered" /\ pSource = Chars("{{ missing | default }}") /\ MissingUndefined
      /\ pShape.autoEscape /\ ~pShape.strictMode
    => pOutput = Rendered(Chars("undefined"))


(***************************************************************************)
(* Specification SpecPreload: one AsyncTemplate on which render, preload   *)
(* and clearCache are called, the texts rendered including texts that are  *)
(* also file names.  calls counts the render and clearCache calls.         *)
(***************************************************************************)
RenderTexts == {Chars("t"), Chars("f"), Chars("T"), Chars("{{ a }}")}

RenderContext == Obj(<< <<Chars("a"), Str(Chars("x"))>> >>)

\* what lastCall keeps of engine.render(template, RenderContext): r is the
\* outcome of the call
RenderRecord(template, r) ==
  [op |-> "render", template |-> template, hit |-> r.hit, result |-> r.result]

\* engine.render(template, RenderContext) up to the resolution of its promise
KeyedRender ==
  /\ calls < MaxCalls
  /\ \E template \in RenderTexts :
       /\ engines' = [engines EXCEPT
                        ![1] = asyncRender(@, template, RenderContext).engine]
       /\ lastCall' = RenderRecord(template,
                                   asyncRender(engines[1], template, RenderContext))
  /\ calls' = calls + 1
  /\ UNCHANGED <<heap, solo, soloHeap, added, loading>>
  /\ UNCHANGED cacheVars
  /\ UNCHANGED pipelineVars

\* engine.clearCache()
AsyncClearCache ==
  /\ calls < MaxCalls
  /\ engines' = [engines EXCEPT ![1] = templateClearCache(@)]
  /\ lastCall' = [op |-> "clearCache"]
  /\ calls' = calls + 1
  /\ UNCHANGED <<heap, solo, soloHeap, added, loading>>
  /\ UNCHANGED cacheVars
  /\ UNCHANGED pipelineVars

NextPreload ==
  \/ SetTemplateDirs
  \/ KeyedRender
  \/ AsyncClearCache
  \/ Preload
  \/ Loaded

SpecPreload == InitAsync /\ [][NextPreload]_vars

\* C24: after any sequence of render, preload and clearCache calls on an
\* AsyncTemplate, a cache hit in render(source, context) executes the
\* compilation of source and of no other text
C24_HitRunsOwnSource ==
  lastCall.op = "render" /\ lastCall.hit =>
    lastCall.result = compileAndRender(engines[1].compiler, lastCall.template,
                                       RenderContext)


(***************************************************************************)
(* Specification SpecNesting: well-nested templates of an outer if or for  *)
(* that holds an inner if or for in one of its bodies, the inner if        *)
(* holding a third if; an if may have an elif, an else, and an elif tag    *)
(* after its else.                                                         *)
(***************************************************************************)
Elses == {"no", "yes", "late"}

\* the inner construct: nothing, a for, or an if with its optional parts
InnerShapes ==
  {[kind |-> "none", elif |-> FALSE, else |-> "no", deep |-> FALSE],
   [kind |-> "for", elif |-> FALSE, else |-> "no", deep |-> FALSE]}
    \cup [kind : {"if"}, elif : BOOLEAN, else : Elses, deep : BOOLEAN]

\* the bodies of the outer construct that exist
Slots(outer, elif, else) ==
  IF outer = "for" THEN {"body"}
  ELSE {"consequent"} \cup (IF elif THEN {"elif"} ELSE {})
         \cup (IF else # "no" THEN {"else"} ELSE {})

Opt(cond, text) == IF cond THEN text ELSE << >>

InnerText(inner) ==
  CASE inner.kind = "none" -> << >>
    [] inner.kind = "for" -> Chars("{% for y in ys %}I{% endfor %}")
    [] inner.kind = "if" ->
         Chars("{% if b %}")
           \o Opt(inner.deep, Chars("{% if h %}H{% else %}J{% endif %}"))
           \o Chars("P")
           \o Opt(inner.elif, Chars("{% elif c %}Q"))
           \o Opt(inner.else # "no", Chars("{% else %}R"))
           \o Opt(inner.else = "late", Chars("{% elif d %}"))
           \o Chars("{% endif %}")

NestingSource(shape) ==
  IF shape.outer = "for"
  THEN Chars("{% for x in xs %}") \o InnerText(shape.inner) \o Chars("X{% endfor %}W")
  ELSE Chars("{% if a %}")
         \o Opt(shape.slot = "consequent", InnerText(shape.inner)) \o Chars("A")
         \o Opt(shape.elif, Chars("{% elif e %}")
                              \o Opt(shape.slot = "elif", InnerText(shape.inner))
                              \o Chars("E"))
         \o Opt(shape.else # "no", Chars("{% else %}")
                                     \o Opt(shape.slot = "else", InnerText(shape.inner))
                                     \o Chars("Z"))
         \o Opt(shape.else = "late", Chars("{% elif g %}"))
         \o Chars("{% endif %}W")

NestingContext ==
  Obj(<< <<Chars("a"), Bool(FALSE)>>, <<Chars("e"), Bool(TRUE)>>,
         <<Chars("b"), Bool(TRUE)>>, <<Chars("h"), Bool(FALSE)>>,
         <<Chars("xs"), Arr(<<Num(1)>>)>>, <<Chars("ys"), Arr(<<Num(1), Num(2)>>)>> >>)

InitNesting ==
  /\ CacheIdle
  /\ EngineIdle
  /\ \E outer \in {"if", "for"}, elif \in BOOLEAN, else \in Elses, inner \in InnerShapes :
       \E slot \in Slots(outer, elif, else) :
         /\ outer = "for" => ~elif /\ else = "no"
         /\ PipelineStart([outer |-> outer, elif |-> elif, else |-> else,
                           slot |-> slot, inner |-> inner],
                          NestingSource([outer |-> outer, elif |-> elif, else |-> else,
                                         slot |-> slot, inner |-> inner]),
                          NestingContext,
                          CompilerOptions(TRUE, FALSE, << >>, TRUE))

SpecNesting == InitNesting /\ [][NextPipeline]_vars

Txt(text) == TextNode(Chars(text))

Cond(name) == Variable(Chars(name))

\* the if node whose tags all belong to it: one elif clause at most, the
\* alternate present exactly when the if has an else
OwnIf(name, consequent, elif, elifName, elifBody, else, alternate) ==
  IfNode(Cond(name), consequent,
         IF elif THEN <<[condition |-> Cond(elifName), body |-> elifBody]>> ELSE << >>,
         else # "no",
         IF else # "no" THEN alternate ELSE << >>)

\* the nodes of the inner construct
InnerNodes(inner) ==
  CASE inner.kind = "none" -> << >>
    [] inner.kind = "for" ->
         <<ForNode(Chars("y"), FALSE, << >>, Cond("ys"), <<Txt("I")>>)>>
    [] inner.kind = "if" ->
         <<OwnIf("b",
                 Opt(inner.deep, <<OwnIf("h", <<Txt("H")>>, FALSE, "", << >>,
                                         "yes", <<Txt("J")>>)>>) \o <<Txt("P")>>,
                 inner.elif, "c", <<Txt("Q")>>, inner.else, <<Txt("R")>>)>>

\* the tree in which every elif, else, endif and endfor is attached to the
\* innermost construct open at its place
NestingTree(shape) ==
  IF shape.outer = "for"
  THEN <<ForNode(Chars("x"), FALSE, << >>, Cond("xs"),
                 InnerNodes(shape.inner) \o <<Txt("X")>>), Txt("W")>>
  ELSE <<OwnIf("a",
               Opt(shape.slot = "consequent", InnerNodes(shape.inner)) \o <<Txt("A")>>,
               shape.elif, "e",
               Opt(shape.slot = "elif", InnerNodes(shape.inner)) \o <<Txt("E")>>,
               shape.else,
               Opt(shape.slot = "else", InnerNodes(shape.inner)) \o <<Txt("Z")>>),
         Txt("W")>>

\* C25: in a well-nested template each elif, else and endif is attached to
\* the innermost if still open and each endfor to the innermost open for; a
\* tag of a nested if or for never ends, or adds a branch to, the enclosing
\* if, and after the else of an if no further elif clause is added to it
C25_TagsAttachInnermost ==
  pc \in {"compiled", "rendered"} =>
    /\ pCompiled.ok
    /\ pCompiled.template.ast = NestingTree(pShape)

\* an if with elif and else nested in the elif body of an if with elif and
\* else has been parsed
C25_Witness ==
  /\ pc = "compiled"
  /\ pShape.outer = "if" /\ pShape.elif /\ pShape.else = "late"
  /\ pShape.slot = "elif"
  /\ pShape.inner = [kind |-> "if", elif |-> TRUE, else |-> "late", deep |-> TRUE]
  /\ pCompiled.ok
  /\ Len(pCompiled.template.ast[1].elseIfs) = 1
  /\ Len(pCompiled.template.ast[1].elseIfs[1].body[1].elseIfs) = 1


(***************************************************************************)
(* Specification SpecScope: a loop over xs (with index variable i) that    *)
(* holds a loop over ys, in a context that may bind x, y, i and loop; the  *)
(* names are printed before, inside, between and after the loops.          *)
(***************************************************************************)
ScopeSource ==
  Chars("{{ x }}|{% for x, i in xs %}{{ x }}{{ i }}{{ y }}{{ loop.index }}")
    \o Chars("{% for y in ys %}{{ x }}{{ y }}{{ loop.index1 }}{{ loop.length }}{% endfor %}")
    \o Chars("{{ y }}{{ loop.index }};{% endfor %}|{{ x }}{{ y }}{{ loop }}{{ i }}")

ScopeItems == {Chars("p"), Chars("q")}

\* the names the parent context may bind besides xs and ys, with the text
\* each is bound to
ScopeNames == {Chars("x"), Chars("y"), Chars("i"), Chars("loop")}

ParentText(name) == ToUpperCase(SubSeq(name, 1, 1))

\* the bindings of the names in bound, in the order x, y, i, loop
RECURSIVE ParentEntries(_, _)
ParentEntries(names, bound) ==
  IF Len(names) = 0 THEN << >>
  ELSE (IF Head(names) \in bound
        THEN << <<Head(names), Str(ParentText(Head(names)))>> >> ELSE << >>)
         \o ParentEntries(Tail(names), bound)

ScopeContext(xs, ys, bound) ==
  Obj(<< <<Chars("xs"), Arr([k \in 1..Len(xs) |-> Str(xs[k])])>>,
         <<Chars("ys"), Arr([k \in 1..Len(ys) |-> Str(ys[k])])>> >>
        \o ParentEntries(<<Chars("x"), Chars("y"), Chars("i"), Chars("loop")>>, bound))

InitScope ==
  /\ CacheIdle
  /\ EngineIdle
  /\ \E xs \in SeqsUpTo(ScopeItems, MaxItems), ys \in SeqsUpTo(ScopeItems, MaxElems),
        bound \in SUBSET ScopeNames :
       PipelineStart([xs |-> xs, ys |-> ys, bound |-> bound,
                      context |-> ScopeContext(xs, ys, bound)],
                     ScopeSource, ScopeContext(xs, ys, bound),
                     CompilerOptions(TRUE, FALSE, << >>, TRUE))

SpecScope == InitScope /\ [][NextPipeline]_vars

\* what {{ name }} prints under the parent bindings alone
Parent(shape, name) ==
  IF name \in shape.bound THEN ParentText(name) ELSE EmptyStr

\* the text of the j-th iteration (1-based) of the inner loop inside the k-th
\* iteration of the outer one
InnerIteration(shape, k, j) ==
  shape.xs[k] \o shape.ys[j] \o NatToDigits(j) \o NatToDigits(Len(shape.ys))

\* the text of the k-th iteration (1-based) of the outer loop
OuterIteration(shape, k) ==
  shape.xs[k] \o NatToDigits(k - 1) \o Parent(shape, Chars("y")) \o NatToDigits(k - 1)
    \o Concat([j \in 1..Len(shape.ys) |-> InnerIteration(shape, k, j)])
    \o Parent(shape, Chars("y")) \o NatToDigits(k - 1) \o Chars(";")

ScopeText(shape) ==
  Parent(shape, Chars("x")) \o Chars("|")
    \o Concat([k \in 1..Len(shape.xs) |-> OuterIteration(shape, k)])
    \o Chars("|") \o Parent(shape, Chars("x")) \o Parent(shape, Chars("y"))
    \o Parent(shape, Chars("loop")) \o Parent(shape, Chars("i"))

\* C26: rendering a for loop never mutates the context it was given; each
\* iteration sees the parent bindings overridden by the loop variable, the
\* index variable and loop; after the loop the parent bindings are in force
\* again; inside a nested loop the outer loop variable stays visible while
\* loop refers to the inner loop
C26_LoopContextLayered ==
  pc = "rendered" =>
    /\ pContext = pShape.context
    /\ pOutput = Rendered(ScopeText(pShape))

\* both loops have run over two elements in a context that binds x, y, i and
\* loop, and the text after the loops shows the parent bindings
C26_Witness ==
  /\ pc = "rendered"
  /\ Len(pShape.xs) = 2 /\ Len(pShape.ys) = 2
  /\ pShape.bound = ScopeNames
  /\ pOutput.ok
  /\ SubSeq(pOutput.out, Len(pOutput.out) - 4, Len(pOutput.out)) = Chars("|XYLI")


(***************************************************************************)
(* Specification SpecNot: {% if not x %}N{% endif %}{% if x %}T{% endif %} *)
(* and the same with ! for not, rendered with every value of x of          *)
(* TruthValues.                                                            *)
(***************************************************************************)
NotOperators == {Chars("not "), Chars("!"), Chars("! ")}

NotSource(operator) ==
  Chars("{% if ") \o operator \o Chars("x %}N{% endif %}{% if x %}T{% endif %}")

InitNot ==
  /\ CacheIdle
  /\ EngineIdle
  /\ \E value \in TruthValues, operator \in NotOperators, strictMode \in BOOLEAN :
       PipelineStart([value |-> value, operator |-> operator], NotSource(operator),
                     Obj(<< <<Chars("x"), value>> >>),
                     CompilerOptions(TRUE, strictMode, << >>, TRUE))

SpecNot == InitNot /\ [][NextPipeline]_vars

\* C27: for every value v, {% if not v %} (and {% if !v %}) renders its body
\* exactly when {% if v %} does not, so that exactly one of the two bodies is
\* in the output
C27_NotIsComplement ==
  pc = "rendered" => pOutput \in {Rendered(Chars("N")), Rendered(Chars("T"))}

\* the same for the values that are neither an empty array nor an empty mapping
C27_NotIsComplementOfNonEmpty ==
  pc = "rendered" /\ ~(pShape.value.t \in {"array", "object"} /\ Len(pShape.value.v) = 0) =>
    pOutput \in {Rendered(Chars("N")), Rendered(Chars("T"))}


(***************************************************************************)
(* Specification SpecLeftover: an if tag, an elif tag and a for tag whose  *)
(* expression text is a complete expression, a complete expression         *)
(* followed by more tokens, an incomplete one, or one with a character     *)
(* ExpressionLexer.nextToken has no case for.                              *)
(***************************************************************************)
TagPlaces == {"if", "elif", "for"}

TagTexts ==
  {Chars("a"), Chars("a b"), Chars("x = 1"), Chars("a == 1"), Chars("a and b"),
   Chars("not a"), Chars("a.b"), Chars("a ==") , Chars("(a"), Chars("a)"),
   Chars("1 2"), Chars("a @"), Chars("a # b"), Chars("a & b"), Chars("$a")}

TagSource(place, text) ==
  CASE place = "if" -> Chars("{% if ") \o text \o Chars(" %}T{% endif %}")
    [] place = "elif" ->
         Chars("{% if c %}C{% elif ") \o text \o Chars(" %}T{% endif %}")
    [] place = "for" -> Chars("{% for v in ") \o text \o Chars(" %}T{% endfor %}")

TagValues == {Bool(TRUE), Bool(FALSE), Arr(<<Num(1)>>)}

InitLeftover ==
  /\ CacheIdle
  /\ EngineIdle
  /\ \E place \in TagPlaces, text \in TagTexts, a \in TagValues :
       PipelineStart([place |-> place, text |-> text], TagSource(place, text),
                     Obj(<< <<Chars("a"), a>>, <<Chars("b"), Bool(TRUE)>>,
                            <<Chars("x"), Num(1)>> >>),
                     CompilerOptions(TRUE, FALSE, << >>, TRUE))

SpecLeftover == InitLeftover /\ [][NextPipeline]_vars

\* the characters ExpressionLexer.nextToken starts a token with (none of
\* TagTexts has a string literal)
TokenChars ==
  LowerLetters \cup UpperLetters \cup Digits
    \cup {"_", "=", "!", "<", ">", ".", ",", "|", "(", ")", "[", "]",
          "+", "-", "*", "/", "%"}

Recognised(text) == \A i \in 1..Len(text) : text[i] \in TokenChars \cup WS

\* parseExpression on the tokens of text ends at the EOF token
ConsumedToEof(text) ==
  LET toks == exprTokenize(text)
      r    == parseExpression(toks, 1)
  IN  r.ok /\ toks[r.p] = EofToken

\* C28: when the template of an if, elif or for tag compiles, the parser
\* has consumed every token of the tag's expression text up to EOF and the
\* text has no character the expression lexer does not recognise; otherwise
\* compilation fails with a parse error
C28_ExpressionWhollyParsed ==
  pc \in {"compiled", "rendered"} /\ pCompiled.ok =>
    Recognised(pShape.text) /\ ConsumedToEof(pShape.text)

\* the two halves of C28 taken apart
C28_NoLeftoverTokens ==
  pc \in {"compiled", "rendered"} /\ pCompiled.ok /\ Recognised(pShape.text) =>
    ConsumedToEof(pShape.text)

C28_NoSkippedCharacters ==
  pc \in {"compiled", "rendered"} /\ pCompiled.ok => Recognised(pShape.text)

\* what does hold: an expression that cannot be completed is a parse error
C28_IncompleteRejected ==
  pc \in {"compiled", "rendered"} /\ pShape.text \in {Chars("a =="), Chars("(a")} =>
    ~pCompiled.ok


(***************************************************************************)
(* The recency list and the map of a TemplateCache (SpecCache)             *)
(***************************************************************************)
\* the call that led to the current state was a set below capacity
SetBelowCapacity ==
  clock' # clock /\ lastOp'.op = "set" /\ CacheSize(tcache) < tcache.maxSize

\* C29: in every state reachable by set, get, has and clear the recency list
\* contains exactly the keys stored in the map, each exactly once; clear
\* empties both; a set into a cache below its capacity evicts nothing (so
\* that the `capacity` distinct sets after a clear evict nothing)
C29_RecencyListsStoredKeys ==
  /\ [](OrderListsCachedKeys(tcache))
  /\ [](lastOp.op = "clear" => tcache.cache = << >> /\ tcache.accessOrder = << >>)
  /\ [][SetBelowCapacity =>
          DOMAIN tcache'.cache = DOMAIN tcache.cache \cup {lastOp'.key}]_vars

\* the recency list and the map agree while the empty string is not stored
C29_AgreeWithoutEmptyKey ==
  EmptyStr \notin DOMAIN tcache.cache => OrderListsCachedKeys(tcache)

\* the two other parts of C29 on their own
C29_ClearAndRefill ==
  /\ [](lastOp.op = "clear" => tcache.cache = << >> /\ tcache.accessOrder = << >>)
  /\ [][SetBelowCapacity =>
          DOMAIN tcache'.cache = DOMAIN tcache.cache \cup {lastOp'.key}]_vars


(***************************************************************************)
(* Specification SpecReadOnly: either a TemplateCache driven by its public *)
(* methods (as in SpecCache) or two Template instances driven by render,   *)
(* compile, addFilter and clearCache (as in SpecEngine).                   *)
(***************************************************************************)
InitReadOnly == InitCache \/ InitEngine

\* no Template instance exists in the runs that drive a TemplateCache
NextReadOnly ==
  \/ engines = << >> /\ NextCache
  \/ engines # << >> /\ NextEngine

SpecReadOnly == InitReadOnly /\ [][NextReadOnly]_vars

\* the step is the call of the cache method op
CacheCall(op) == clock' # clock /\ lastOp'.op = op

\* the step is the call of the Template method op
EngineCall(op) == calls' # calls /\ lastCall'.op = op

\* C30: read-only operations leave the cache untouched: TemplateCache.has,
\* a TemplateCache.get that misses and Template.compile change neither the
\* stored keys nor the recency order, and on a Template built with cache:
\* false no render call changes the cache, which stays empty
C30_ReadOnlyLeavesCache ==
  /\ [][/\ CacheCall("has") => tcache' = tcache
        /\ CacheCall("get") /\ ~CacheHas(tcache, lastOp'.key) => tcache' = tcache
        /\ EngineCall("compile") =>
             \A e \in Engines : engines'[e].cache = engines[e].cache
        /\ EngineCall("render") /\ ~engines[lastCall'.engine].cacheOn =>
             \A e \in Engines : engines'[e].cache = engines[e].cache
       ]_vars
  /\ [](\A e \in DOMAIN engines :
          ~engines[e].cacheOn =>
            engines[e].cache.cache = << >> /\ engines[e].cache.accessOrder = << >>)

\* three renders that succeed were made on Template instances built with
\* cache: false
C30_Witness ==
  /\ calls = 3
  /\ lastCall.op = "render"
  /\ ~engines[lastCall.engine].cacheOn
  /\ lastCall.result.ok /\ Len(lastCall.result.out) > 0
  /\ CacheSize(engines[lastCall.engine].cache) = 0

\* a get missed on a TemplateCache that stores two keys
C30_MissOnFilledCache ==
  /\ lastOp.op = "get"
  /\ ~CacheHas(tcache, lastOp.key)
  /\ CacheSize(tcache) = 2

====
